---- MODULE Spec2Model ----
(***************************************************************************)
(* A model of @dcyfr/ai-notebooks: the sequential pipeline runner          *)
(* (src/src/pipeline/runner.ts) and the notebook runner                    *)
(* (src/src/notebook/runner.ts, cell.ts, notebook.ts), and the dataset     *)
(* transforms (dataset.ts, src/src/pipeline/transform.ts).                 *)
(*                                                                         *)
(* Caller-supplied functions are uninterpreted: a step function registered *)
(* as f maps the running value v to Append(v, f), so two values are equal  *)
(* exactly when the same functions were applied in the same order.  Every  *)
(* exception carries a message that names where and when it was thrown, so *)
(* "the message of the last attempt" is distinguishable from any other.    *)
(***************************************************************************)
EXTENDS Integers, Sequences, FiniteSets, TLC

\* ------------------------------------------------------------------ bounds
MaxSteps == 3
MaxRetriesBound == 2
MaxCells == 2
MaxRows == 3
MaxNotebookCells == 3
MaxBuilds == 1

\* Step names a configuration may list, and the pipeline input.
Names == {"a", "b"}
PipelineInput == << >>

VARIABLES
    \* executePipeline: arguments
    config,          \* pipeline.config: steps, retryOnFailure, maxRetries, continueOnError
    stepFns,         \* pipeline.steps: a map from registered names to functions
    hasCallback,     \* options.onStepComplete is supplied
    \* executePipeline: locals
    pc,              \* "for" | "while" | "await" | "return" | "resolved" | "rejected"
    i,               \* for-loop index (0-based, as in the code)
    step,            \* the PipelineStep record of the step being run
    attempts,
    success,
    currentInput,
    pipelineStatus,
    pipelineError,
    stepResults,
    result,          \* the PipelineRunResult the promise resolved with
    \* observers
    calls,           \* every step-function invocation: [idx, input, outcome, value]
    reached,         \* the running value when the for loop reached each step
    inFlight,        \* indices of steps whose function is awaited
    cbCalls,         \* every onStepComplete invocation: [idx, status]
    lastThrown       \* message of the last exception caught for the current step

pvars == << config, stepFns, hasCallback, pc, i, step, attempts, success,
            currentInput, pipelineStatus, pipelineError, stepResults, result,
            calls, reached, inFlight, cbCalls, lastThrown >>

VARIABLES
    \* executeNotebook: arguments
    notebook,        \* notebook.cells of the notebook passed in
    nbOptions,       \* executor, stopOnError, cellIds, onCellComplete, onCellError
    \* executeNotebook: locals
    npc,             \* "loop" | "await" | "resolved" | "rejected"
    nbResult,        \* result.cells
    cellsToRun,
    ni,              \* loop index (0-based, as in the code)
    ctxCount,        \* context.executionCount
    running,         \* executeCell: the cell marked running while the executor is awaited
    \* observers
    execCalls,       \* every executor invocation: [id, source, count, index, before,
                     \*   outcome, outputs, message]
    returned,        \* what each executeCell call returned, in call order:
                     \*   [cell, countBefore, countAfter] with the context counter
                     \*   at entry and at return
    nbCbCalls        \* every onCellComplete / onCellError invocation: [cb, id, index]

nvars == << notebook, nbOptions, npc, nbResult, cellsToRun, ni, ctxCount, running,
            execCalls, returned, nbCbCalls >>

VARIABLES
    \* one call of a dataset transform
    dsIn,            \* the Dataset passed in: [metadata, rows], rows an array object
    dsCall,          \* the call made: [op, ...arguments]
    dsOut,           \* the Dataset the call returned
    dspc,            \* "ready" | "done" | "redone"
    nextRef          \* the next unused object identity

dvars == << dsIn, dsCall, dsOut, dspc, nextRef >>

VARIABLES
    \* calls of the notebook manager on one notebook
    edCells,         \* notebook.cells of the notebook the calls have produced
    edCall,          \* the last call made: [op, id, index, cells]
    edPrev,          \* notebook.cells of the notebook passed to the last call
    edpc             \* "ready" | "done"

evars == << edCells, edCall, edPrev, edpc >>

VARIABLES
    \* a PipelineBuilder and the objects it shares or copies
    arrays,          \* the string arrays alive, by object identity
    maps,            \* the Map objects alive, by object identity
    builder,         \* the builder: [stepNames, stepFns] identities and its options
    stepCalls,       \* the step(name, fn) calls made on the builder, in order
    definitions,     \* what build() returned, with the contents at that time
    bpc              \* "building" | "running"

bvars == << arrays, maps, builder, stepCalls, definitions, bpc >>

vars == << pvars, nvars, dvars, evars, bvars >>

\* ---------------------------------------------------------------- messages
NoError == [kind |-> "none", name |-> "", idx |-> 0, attempt |-> 0]

\* `Step function not found: ${stepName}`
NotFoundMsg(name) == [kind |-> "Step function not found: ", name |-> name,
                      idx |-> 0, attempt |-> 0]

\* err.message of what a step function threw on a given attempt of step idx
FnThrowMsg(idx, attempt) == [kind |-> "stepFn", name |-> "", idx |-> idx,
                             attempt |-> attempt]

\* err.message of what onStepComplete threw
CbThrowMsg(idx, attempt) == [kind |-> "onStepComplete", name |-> "", idx |-> idx,
                             attempt |-> attempt]

\* ------------------------------------------------------------ step records
StepId(idx) == << "step-", idx >>

NoStep == [id |-> StepId(0), name |-> "", status |-> "pending", error |-> NoError,
           startedAt |-> FALSE, completedAt |-> FALSE]

RunningStep(idx, name) ==
    [id |-> StepId(idx), name |-> name, status |-> "running", error |-> NoError,
     startedAt |-> TRUE, completedAt |-> FALSE]

\* the missing function recorded as skipped instead of failed
MissingStepRecordSkipped(idx, name) ==
    [id |-> StepId(idx), name |-> name, status |-> "skipped",
     error |-> NotFoundMsg(name), startedAt |-> TRUE, completedAt |-> TRUE]

MissingStepRecord(idx, name) ==
    [id |-> StepId(idx), name |-> name, status |-> "failed",
     error |-> NotFoundMsg(name), startedAt |-> TRUE, completedAt |-> TRUE]

SkippedStep(idx, name) ==
    [id |-> StepId(idx), name |-> name, status |-> "skipped", error |-> NoError,
     startedAt |-> FALSE, completedAt |-> FALSE]

\* config.steps[idx] with the code's 0-based index
StepName(idx) == config.steps[idx + 1]

NumSteps == Len(config.steps)

\* the records pushed for steps idx+1 .. length-1 when the run halts
SkippedTail(idx) ==
    [k \in 1 .. (NumSteps - idx - 1) |-> SkippedStep(idx + k, StepName(idx + k))]

\* ------------------------------------------------------------- the policy
MaxAttempts == IF config.retryOnFailure THEN config.maxRetries + 1 ELSE 1

\* a failure under continueOnError leaving the run completed
StatusOnThrowCompleted == IF config.continueOnError THEN "completed" ELSE "failed"

StatusOnThrow == IF config.continueOnError THEN "partial" ELSE "failed"

StatusOnMissing == "failed"

\* onStepComplete called after the try block instead of inside it
PipelineHandlerCallbackOutside(site) ==
    CASE site = "stepFn" -> "catch"
      [] site = "onStepComplete" -> "propagate"

\* The try block of the retry loop encloses the call of the step function and
\* the call of onStepComplete: what either throws reaches the catch clause.
PipelineHandler(site) ==
    CASE site = "stepFn" -> "catch"
      [] site = "onStepComplete" -> "catch"

\* a step function applied to the running value
Apply(fn, v) == Append(v, fn)

\* ------------------------------------------------------------------- Init
Configs ==
    [steps : UNION {[1 .. n -> Names] : n \in 0 .. MaxSteps},
     retryOnFailure : BOOLEAN,
     maxRetries : 0 .. MaxRetriesBound,
     continueOnError : BOOLEAN]

Registrations == {[n \in S |-> n] : S \in SUBSET Names}

\* the notebook runner at rest, while a pipeline run is explored
NotebookIdle ==
    /\ notebook = << >>
    /\ nbOptions = [executor |-> "default", stopOnError |-> "omitted",
                    cellIdsGiven |-> FALSE, cellIds |-> << >>,
                    onCellComplete |-> FALSE, onCellError |-> FALSE]
    /\ npc = "idle"
    /\ nbResult = << >>
    /\ cellsToRun = << >>
    /\ ni = 0
    /\ ctxCount = 0
    /\ running = << >>
    /\ execCalls = << >>
    /\ returned = << >>
    /\ nbCbCalls = << >>

\* no dataset transform is under way, while a pipeline or notebook run is explored
DatasetIdle ==
    /\ dsIn = << >>
    /\ dsCall = << >>
    /\ dsOut = << >>
    /\ dspc = "idle"
    /\ nextRef = 0

\* no notebook is being edited
EditIdle ==
    /\ edCells = << >>
    /\ edCall = << >>
    /\ edPrev = << >>
    /\ edpc = "idle"

\* no PipelineBuilder exists
BuilderIdle ==
    /\ arrays = << >>
    /\ maps = << >>
    /\ builder = << >>
    /\ stepCalls = << >>
    /\ definitions = << >>
    /\ bpc = "idle"

Init ==
    /\ NotebookIdle
    /\ DatasetIdle
    /\ EditIdle
    /\ BuilderIdle
    /\ config \in Configs
    /\ stepFns \in Registrations
    /\ hasCallback \in BOOLEAN
    /\ pc = "for"
    /\ i = 0
    /\ step = NoStep
    /\ attempts = 0
    /\ success = FALSE
    /\ currentInput = PipelineInput
    /\ pipelineStatus = "completed"
    /\ pipelineError = NoError
    /\ stepResults = << >>
    /\ result = [status |-> "none", steps |-> << >>, error |-> NoError,
                 output |-> PipelineInput]
    /\ calls = << >>
    /\ reached = << >>
    /\ inFlight = {}
    /\ cbCalls = << >>
    /\ lastThrown = NoError

\* ---------------------------------------------------------------- actions
\* for (let i = 0; i < config.steps.length; i++): the loop is over
LoopEnd ==
    /\ pc = "for"
    /\ i >= NumSteps
    /\ pc' = "return"
    /\ UNCHANGED << config, stepFns, hasCallback, i, step, attempts, success,
                    currentInput, pipelineStatus, pipelineError, stepResults,
                    result, calls, reached, inFlight, cbCalls, lastThrown >>
    /\ UNCHANGED << nvars, dvars, evars, bvars >>

\* if (!stepFn) { ... }
MissingStep ==
    /\ pc = "for"
    /\ i < NumSteps
    /\ StepName(i) \notin DOMAIN stepFns
    /\ stepResults' = Append(stepResults, MissingStepRecord(i, StepName(i)))
    /\ pipelineStatus' = StatusOnMissing
    /\ pipelineError' = NotFoundMsg(StepName(i))
    /\ reached' = Append(reached, currentInput)
    /\ IF ~config.continueOnError
         THEN pc' = "return" /\ i' = i
         ELSE pc' = "for" /\ i' = i + 1
    /\ UNCHANGED << config, stepFns, hasCallback, step, attempts, success,
                    currentInput, result, calls, inFlight, cbCalls, lastThrown >>
    /\ UNCHANGED << nvars, dvars, evars, bvars >>

\* const step = { status: 'running', ... }; let attempts = 0; let success = false
StartStep ==
    /\ pc = "for"
    /\ i < NumSteps
    /\ StepName(i) \in DOMAIN stepFns
    /\ step' = RunningStep(i, StepName(i))
    /\ attempts' = 0
    /\ success' = FALSE
    /\ lastThrown' = NoError
    /\ reached' = Append(reached, currentInput)
    /\ pc' = "while"
    /\ UNCHANGED << config, stepFns, hasCallback, i, currentInput, pipelineStatus,
                    pipelineError, stepResults, result, calls, inFlight, cbCalls >>
    /\ UNCHANGED << nvars, dvars, evars, bvars >>

\* while (attempts < maxAttempts && !success) { attempts++; ... stepFn(currentInput, context)
Invoke ==
    /\ pc = "while"
    /\ attempts < MaxAttempts /\ ~success
    /\ attempts' = attempts + 1
    /\ calls' = Append(calls, [idx |-> i, input |-> currentInput,
                                fn |-> stepFns[StepName(i)],
                                outcome |-> "pending", value |-> currentInput])
    /\ inFlight' = inFlight \cup {i}
    /\ pc' = "await"
    /\ UNCHANGED << config, stepFns, hasCallback, i, step, success, currentInput,
                    pipelineStatus, pipelineError, stepResults, result, reached,
                    cbCalls, lastThrown >>
    /\ UNCHANGED << nvars, dvars, evars, bvars >>

\* catch (err) { ... } with the step and status as they are when the clause is entered
Caught(message, st) ==
    /\ lastThrown' = message
    /\ IF attempts >= MaxAttempts
         THEN /\ step' = [st EXCEPT !.status = "failed", !.error = message,
                                    !.completedAt = TRUE]
              /\ pipelineStatus' = StatusOnThrow
              /\ pipelineError' = message
         ELSE /\ step' = st
              /\ UNCHANGED << pipelineStatus, pipelineError >>

\* the awaited step function throws (or its promise rejects)
FnThrows ==
    /\ pc = "await"
    /\ inFlight' = inFlight \ {i}
    /\ IF PipelineHandler("stepFn") = "catch"
         THEN /\ Caught(FnThrowMsg(i, attempts), step)
              /\ pc' = "while"
         ELSE /\ pc' = "rejected"
              /\ UNCHANGED << step, pipelineStatus, pipelineError, lastThrown >>
    /\ calls' = [calls EXCEPT ![Len(calls)].outcome = "threw"]
    /\ UNCHANGED << config, stepFns, hasCallback, i, attempts, success,
                    currentInput, stepResults, result, reached, cbCalls >>
    /\ UNCHANGED << nvars, dvars, evars, bvars >>

\* the awaited step function resolves: currentInput = ...; step.status = 'completed';
\* success = true; options?.onStepComplete?.(step)
FnResolves ==
    /\ pc = "await"
    /\ inFlight' = inFlight \ {i}
    /\ currentInput' = Apply(stepFns[StepName(i)], currentInput)
    /\ success' = TRUE
    /\ LET done == [step EXCEPT !.status = "completed", !.completedAt = TRUE]
       IN  \/ /\ ~hasCallback
              /\ step' = done
              /\ pc' = "while"
              /\ UNCHANGED << cbCalls, pipelineStatus, pipelineError, lastThrown >>
           \/ /\ hasCallback
              /\ cbCalls' = Append(cbCalls, [idx |-> i, status |-> done.status])
              /\ \/ \* the callback returns
                    /\ step' = done
                    /\ pc' = "while"
                    /\ UNCHANGED << pipelineStatus, pipelineError, lastThrown >>
                 \/ \* the callback throws
                    IF PipelineHandler("onStepComplete") = "catch"
                      THEN /\ Caught(CbThrowMsg(i, attempts), done)
                           /\ pc' = "while"
                      ELSE /\ step' = done
                           /\ pc' = "rejected"
                           /\ UNCHANGED << pipelineStatus, pipelineError, lastThrown >>
    /\ calls' = [calls EXCEPT ![Len(calls)].outcome = "returned",
                               ![Len(calls)].value = currentInput']
    /\ UNCHANGED << config, stepFns, hasCallback, i, attempts, stepResults,
                    result, reached >>
    /\ UNCHANGED << nvars, dvars, evars, bvars >>

\* the while loop is left: stepResults.push(step); skip the rest or go on
AfterAttempts ==
    /\ pc = "while"
    /\ ~(attempts < MaxAttempts /\ ~success)
    /\ IF step.status = "failed" /\ ~config.continueOnError
         THEN /\ stepResults' = Append(stepResults, step) \o SkippedTail(i)
              /\ pc' = "return"
              /\ i' = i
         ELSE /\ stepResults' = Append(stepResults, step)
              /\ pc' = "for"
              /\ i' = i + 1
    /\ UNCHANGED << config, stepFns, hasCallback, step, attempts, success,
                    currentInput, pipelineStatus, pipelineError, result, calls,
                    reached, inFlight, cbCalls, lastThrown >>
    /\ UNCHANGED << nvars, dvars, evars, bvars >>

\* return { result: {...}, output: currentInput }
Return ==
    /\ pc = "return"
    /\ result' = [status |-> pipelineStatus, steps |-> stepResults,
                  error |-> pipelineError, output |-> currentInput]
    /\ pc' = "resolved"
    /\ UNCHANGED << config, stepFns, hasCallback, i, step, attempts, success,
                    currentInput, pipelineStatus, pipelineError, stepResults,
                    calls, reached, inFlight, cbCalls, lastThrown >>
    /\ UNCHANGED << nvars, dvars, evars, bvars >>

Next ==
    \/ LoopEnd
    \/ MissingStep
    \/ StartStep
    \/ Invoke
    \/ FnThrows
    \/ FnResolves
    \/ AfterAttempts
    \/ Return

Spec == Init /\ [][Next]_vars

\* ================================================================ notebook
\* executionCount: undefined
NoCount == 0

Whitespace == {" ", "\n", "\t"}

\* String.prototype.trim on a string held as a sequence of characters
RECURSIVE TrimStart(_)
TrimStart(str) ==
    IF str # << >> /\ Head(str) \in Whitespace THEN TrimStart(Tail(str)) ELSE str

RECURSIVE TrimEnd(_)
TrimEnd(str) ==
    IF str # << >> /\ str[Len(str)] \in Whitespace
      THEN TrimEnd(SubSeq(str, 1, Len(str) - 1))
      ELSE str

Trim(str) == TrimEnd(TrimStart(str))

\* source.split('\n')
RECURSIVE SplitLines(_, _)
SplitLines(str, line) ==
    IF str = << >> THEN << line >>
    ELSE IF Head(str) = "\n" THEN << line >> \o SplitLines(Tail(str), << >>)
    ELSE SplitLines(Tail(str), Append(line, Head(str)))

\* lines.map((l) => `> ${l}`).join('\n')
RECURSIVE JoinQuoted(_)
JoinQuoted(lines) ==
    IF lines = << >> THEN << >>
    ELSE IF Len(lines) = 1 THEN << ">", " " >> \o lines[1]
    ELSE << ">", " " >> \o lines[1] \o << "\n" >> \o JoinQuoted(Tail(lines))

CreateOutput(type, data) == [type |-> type, data |-> data]

\* defaultExecutor: the text output of the non-blank lines of the source
DefaultOutputs(source) ==
    LET lines == SelectSeq(SplitLines(source, << >>), LAMBDA l : Len(Trim(l)) > 0)
    IN  << CreateOutput("text", JoinQuoted(lines)) >>

\* what a caller-supplied executor returns for a source on a given execution
CustomOutputs(source, count) == << CreateOutput("text", << "out", source, count >>) >>

\* the message of what a caller-supplied executor throws
ExecutorThrowMsg(source, count) == << "executor threw", source, count >>

CreateCell(type, source, id) ==
    [id |-> id, type |-> type, source |-> source, outputs |-> << >>,
     status |-> "idle", executionCount |-> NoCount]

MarkRunningKeepCount(cell, executionCount) ==
    [cell EXCEPT !.status = "running", !.outputs = << >>]

MarkRunning(cell, executionCount) ==
    [cell EXCEPT !.status = "running", !.executionCount = executionCount,
                 !.outputs = << >>]

MarkCompletedStillRunning(cell, outputs) == [cell EXCEPT !.outputs = outputs]

MarkCompleted(cell, outputs) ==
    [cell EXCEPT !.status = "completed", !.outputs = outputs]

MarkError(cell, error) ==
    [cell EXCEPT !.status = "error", !.outputs = << CreateOutput("error", error) >>]

\* { ...c, ...updates }
Spread(c, updates) ==
    [f \in DOMAIN c \cup DOMAIN updates |->
        IF f \in DOMAIN updates THEN updates[f] ELSE c[f]]

\* notebook.cells.map((c) => c.id === cellId ? { ...c, ...updates } : c)
UpdateCell(cells, cellId, updates) ==
    [k \in DOMAIN cells |->
        IF cells[k].id = cellId THEN Spread(cells[k], updates) ELSE cells[k]]

\* options?.stopOnError ?? true
StopOnError == IF nbOptions.stopOnError = "omitted" THEN TRUE
               ELSE nbOptions.stopOnError = "true"

\* cellIds.includes(id)
Includes(ids, id) == \E k \in 1 .. Len(ids) : ids[k] = id

CellsToRunInIdsOrder(cells, options) ==
    LET ids == options.cellIds
        pick[k \in 0 .. Len(ids)] ==
            IF k = 0 THEN << >>
            ELSE pick[k - 1] \o SelectSeq(cells, LAMBDA c : c.id = ids[k])
    IN  IF options.cellIdsGiven THEN pick[Len(ids)] ELSE cells

\* options?.cellIds ? notebook.cells.filter(...) : notebook.cells
CellsToRun(cells, options) ==
    IF options.cellIdsGiven
      THEN SelectSeq(cells, LAMBDA c : Includes(options.cellIds, c.id))
      ELSE cells

SkipsCellNoTrim(cell) == cell.type # "code" \/ Len(cell.source) = 0

\* executeCell returns the cell skipped without calling the executor
SkipsCell(cell) == cell.type # "code" \/ Len(Trim(cell.source)) = 0

\* getExecutionSummary: the cells counted by status
GetExecutionSummary(cells) ==
    LET count(status) == Cardinality({k \in 1 .. Len(cells) : cells[k].status = status})
    IN  [total |-> Len(cells),
         completed |-> count("completed"),
         errors |-> count("error"),
         skipped |-> count("skipped"),
         idle |-> count("idle")]

\* executeNotebook encloses neither callback in a try block; executeCell awaits
\* the executor inside one.
NotebookHandler(site) ==
    CASE site = "executor" -> "catch"
      [] site = "onCellComplete" -> "propagate"
      [] site = "onCellError" -> "propagate"

\* ------------------------------------------------------------------- Init
CellIdPool == {"c1", "c2"}

Sources == {<< >>, << " " >>, << "x" >>}

\* a cell as createCell leaves it, or as an earlier run left it
PriorCells ==
    {CreateCell("code", src, id) : src \in Sources \ {<< " " >>}, id \in CellIdPool}
    \cup {CreateCell("markdown", << "x" >>, id) : id \in CellIdPool}
    \cup {[CreateCell("code", src, id) EXCEPT
              !.status = "completed", !.executionCount = 7,
              !.outputs = << CreateOutput("text", << "old" >>) >>] :
                 src \in {<< "x" >>, << " " >>}, id \in CellIdPool}

Notebooks == UNION {[1 .. n -> PriorCells] : n \in 0 .. MaxCells}

CellIdLists == {<< >>, << "c1" >>, << "c2" >>, << "c2", "c1" >>}

NotebookOptions ==
    [executor : {"default", "custom"},
     stopOnError : {"omitted", "true", "false"},
     cellIdsGiven : {FALSE},
     cellIds : {<< >>},
     onCellComplete : BOOLEAN,
     onCellError : BOOLEAN]
    \cup
    [executor : {"custom"},
     stopOnError : {"omitted", "true", "false"},
     cellIdsGiven : {TRUE},
     cellIds : CellIdLists,
     onCellComplete : BOOLEAN,
     onCellError : BOOLEAN]

\* the pipeline runner at rest, while a notebook run is explored
PipelineIdle ==
    /\ config = [steps |-> << >>, retryOnFailure |-> FALSE, maxRetries |-> 0,
                 continueOnError |-> FALSE]
    /\ stepFns = << >>
    /\ hasCallback = FALSE
    /\ pc = "idle"
    /\ i = 0
    /\ step = NoStep
    /\ attempts = 0
    /\ success = FALSE
    /\ currentInput = PipelineInput
    /\ pipelineStatus = "completed"
    /\ pipelineError = NoError
    /\ stepResults = << >>
    /\ result = [status |-> "none", steps |-> << >>, error |-> NoError,
                 output |-> PipelineInput]
    /\ calls = << >>
    /\ reached = << >>
    /\ inFlight = {}
    /\ cbCalls = << >>
    /\ lastThrown = NoError

\* let result = notebook; const cellsToRun = ...; const context = createExecutionContext()
NbInit ==
    /\ PipelineIdle
    /\ DatasetIdle
    /\ EditIdle
    /\ BuilderIdle
    /\ notebook \in Notebooks
    /\ nbOptions \in NotebookOptions
    /\ npc = "loop"
    /\ nbResult = notebook
    /\ cellsToRun = CellsToRun(notebook, nbOptions)
    /\ ni = 0
    /\ ctxCount = 0
    /\ running = << >>
    /\ execCalls = << >>
    /\ returned = << >>
    /\ nbCbCalls = << >>

\* ---------------------------------------------------------------- actions
\* what follows `await executeCell(...)` in the loop body, for the cell at index ni
AfterExecuteCell(cell, executed) ==
    /\ nbResult' = UpdateCell(nbResult, cell.id, executed)
    /\ returned' = Append(returned,
          [cell |-> executed,
           countBefore |-> IF \E k \in 1 .. Len(execCalls) : execCalls[k].index = ni
                             THEN execCalls[Len(execCalls)].before
                             ELSE ctxCount,
           countAfter |-> ctxCount])
    /\ LET cb == IF executed.status = "completed" /\ nbOptions.onCellComplete
                   THEN "onCellComplete"
                 ELSE IF executed.status = "error" /\ nbOptions.onCellError
                   THEN "onCellError"
                 ELSE "none"
           goOn == /\ IF executed.status = "error" /\ StopOnError
                        THEN npc' = "resolved" /\ ni' = ni
                        ELSE npc' = "loop" /\ ni' = ni + 1
       IN  \/ /\ cb = "none"
              /\ goOn
              /\ UNCHANGED nbCbCalls
           \/ /\ cb # "none"
              /\ nbCbCalls' = Append(nbCbCalls, [cb |-> cb, id |-> executed.id,
                                                 index |-> ni])
              /\ \/ goOn                     \* the callback returns
                 \/ IF NotebookHandler(cb) = "catch"   \* the callback throws
                      THEN goOn
                      ELSE npc' = "rejected" /\ ni' = ni

\* the loop is over: return result
NbLoopEnd ==
    /\ npc = "loop"
    /\ ni >= Len(cellsToRun)
    /\ npc' = "resolved"
    /\ UNCHANGED << notebook, nbOptions, nbResult, cellsToRun, ni, ctxCount,
                    running, execCalls, returned, nbCbCalls >>
    /\ UNCHANGED << pvars, dvars, evars, bvars >>

\* executeCell on a cell that is not code or has a blank source
NbSkipCell ==
    /\ npc = "loop"
    /\ ni < Len(cellsToRun)
    /\ LET cell == cellsToRun[ni + 1]
       IN  /\ SkipsCell(cell)
           /\ AfterExecuteCell(cell, [cell EXCEPT !.status = "skipped"])
    /\ UNCHANGED << notebook, nbOptions, cellsToRun, ctxCount, running, execCalls >>
    /\ UNCHANGED << pvars, dvars, evars, bvars >>

\* executeCell: context.executionCount++; markRunning; executor(cell.source, context)
NbCallExecutor ==
    /\ npc = "loop"
    /\ ni < Len(cellsToRun)
    /\ LET cell == cellsToRun[ni + 1]
       IN  /\ ~SkipsCell(cell)
           /\ running' = MarkRunning(cell, ctxCount + 1)
           /\ execCalls' = Append(execCalls,
                  [id |-> cell.id, source |-> cell.source, count |-> ctxCount + 1,
                   index |-> ni, before |-> ctxCount, outcome |-> "pending",
                   outputs |-> << >>, message |-> << >>])
    \* defaultExecutor runs to its end when called: context.executionCount++
    /\ ctxCount' = IF nbOptions.executor = "default" THEN ctxCount + 2 ELSE ctxCount + 1
    /\ npc' = "await"
    /\ UNCHANGED << notebook, nbOptions, nbResult, cellsToRun, ni, returned,
                    nbCbCalls >>
    /\ UNCHANGED << pvars, dvars, evars, bvars >>

\* the awaited executor resolves: markCompleted(running, outputs)
NbExecutorReturns ==
    /\ npc = "await"
    /\ LET cell == cellsToRun[ni + 1]
           outputs == IF nbOptions.executor = "default"
                        THEN DefaultOutputs(cell.source)
                        ELSE CustomOutputs(cell.source, running.executionCount)
       IN  /\ AfterExecuteCell(cell, MarkCompleted(running, outputs))
           /\ execCalls' = [execCalls EXCEPT ![Len(execCalls)].outcome = "returned",
                                             ![Len(execCalls)].outputs = outputs]
    /\ UNCHANGED << notebook, nbOptions, cellsToRun, ctxCount, running >>
    /\ UNCHANGED << pvars, dvars, evars, bvars >>

\* the awaited executor throws: markError(running, message)
NbExecutorThrows ==
    /\ npc = "await"
    /\ nbOptions.executor = "custom"
    /\ LET cell == cellsToRun[ni + 1]
           message == ExecutorThrowMsg(cell.source, running.executionCount)
       IN  /\ IF NotebookHandler("executor") = "catch"
                 THEN AfterExecuteCell(cell, MarkError(running, message))
                 ELSE npc' = "rejected"
                      /\ UNCHANGED << nbResult, ni, returned, nbCbCalls >>
           /\ execCalls' = [execCalls EXCEPT ![Len(execCalls)].outcome = "threw",
                                             ![Len(execCalls)].message = message]
    /\ UNCHANGED << notebook, nbOptions, cellsToRun, ctxCount, running >>
    /\ UNCHANGED << pvars, dvars, evars, bvars >>

NbNext ==
    \/ NbLoopEnd
    \/ NbSkipCell
    \/ NbCallExecutor
    \/ NbExecutorReturns
    \/ NbExecutorThrows

NotebookSpec == NbInit /\ [][NbNext]_vars

\* ======================================================= dataset transforms
\* JavaScript values a row holds: numbers (n / d, d = 1 for an integer),
\* strings, null and undefined
Num(n) == [t |-> "number", n |-> n, d |-> 1, s |-> ""]
Str(s) == [t |-> "string", n |-> 0, d |-> 1, s |-> s]
Null == [t |-> "null", n |-> 0, d |-> 1, s |-> ""]
Undefined == [t |-> "undefined", n |-> 0, d |-> 1, s |-> ""]

\* typeof v === 'number'
IsNumber(v) == v.t = "number"

\* v === null || v === undefined
IsNullish(v) == v.t \in {"null", "undefined"}

\* Numbers are IEEE-754 floating point: a sum is rounded to the nearest value
\* with MantissaBits significant bits, ties to the even mantissa.  The width
\* is scaled down from 53 so that rounding happens on small numbers.
MantissaBits == 2

RECURSIVE Pow2(_)
Pow2(k) == IF k = 0 THEN 1 ELSE 2 * Pow2(k - 1)

Abs(x) == IF x < 0 THEN 0 - x ELSE x

RECURSIVE RoundAt(_, _)
RoundAt(m, unit) ==
    IF m < Pow2(MantissaBits) * unit
      THEN LET q == m \div unit
               r == m % unit
               up == 2 * r > unit \/ (2 * r = unit /\ q % 2 = 1)
           IN  (IF up THEN q + 1 ELSE q) * unit
      ELSE RoundAt(m, 2 * unit)

RECURSIVE Gcd(_, _)
Gcd(a, b) == IF b = 0 THEN a ELSE Gcd(b, a % b)

\* a / b on numbers, b > 0, kept as the exact quotient in lowest terms
Quotient(a, b) ==
    LET g == Gcd(Abs(a), b)
    IN  [t |-> "number", n |-> a \div g, d |-> b \div g, s |-> ""]

RoundNumber(x) == IF x < 0 THEN 0 - RoundAt(0 - x, 1) ELSE RoundAt(x, 1)

\* a + b on numbers
NumAdd(a, b) == RoundNumber(a + b)

\* values.reduce((a, b) => a + b, 0)
RECURSIVE ReduceSum(_, _)
ReduceSum(values, acc) ==
    IF values = << >> THEN acc
    ELSE ReduceSum(Tail(values), NumAdd(acc, Head(values)))

\* Strings compare by code units; the order of the strings used here
StringRank(s) == IF s = "a" THEN 1 ELSE IF s = "s" THEN 2 ELSE 0

\* va < vb on two values that are neither null nor undefined: numbers by
\* value, strings by code units; a number against a string that is not
\* numeric converts the string to NaN, and every comparison with NaN is false
LessThan(va, vb) ==
    IF va.t = "number" /\ vb.t = "number" THEN va.n * vb.d < vb.n * va.d
    ELSE IF va.t = "string" /\ vb.t = "string"
      THEN StringRank(va.s) < StringRank(vb.s)
    ELSE FALSE

\* A row is an object with an identity and its own properties in insertion
\* order; an array of rows is an object with an identity too.
Row(ref, entries) == [ref |-> ref, entries |-> entries]
Entry(k, v) == [k |-> k, v |-> v]
RowsArray(ref, items) == [ref |-> ref, items |-> items]

\* col in row
Has(row, col) == \E e \in 1 .. Len(row.entries) : row.entries[e].k = col

\* row[col]
Get(row, col) ==
    IF Has(row, col)
      THEN row.entries[CHOOSE e \in 1 .. Len(row.entries) : row.entries[e].k = col].v
      ELSE Undefined

\* Object.keys(row)
Keys(row) == [e \in 1 .. Len(row.entries) |-> row.entries[e].k]

\* obj[k] = v on the property list of an object: an existing key keeps its place
SetKey(entries, k, v) ==
    IF \E e \in 1 .. Len(entries) : entries[e].k = k
      THEN [e \in 1 .. Len(entries) |->
               IF entries[e].k = k THEN Entry(k, v) ELSE entries[e]]
      ELSE Append(entries, Entry(k, v))

\* inferColumnType
InferColumnType(value) ==
    IF IsNullish(value) THEN "null"
    ELSE IF value.t = "string" THEN "string"
    ELSE IF value.t = "number" THEN "number"
    ELSE "object"

\* the Set of column names, in insertion order
RECURSIVE AddKeys(_, _)
AddKeys(names, keys) ==
    IF keys = << >> THEN names
    ELSE AddKeys(IF \E e \in 1 .. Len(names) : names[e] = Head(keys)
                   THEN names ELSE Append(names, Head(keys)),
                 Tail(keys))

RECURSIVE ColumnNames(_, _)
ColumnNames(items, names) ==
    IF items = << >> THEN names
    ELSE ColumnNames(Tail(items), AddKeys(names, Keys(Head(items))))

InferSchemaFromFirstRow(items, name) ==
    IF Len(items) = 0 THEN [name |-> name, rows |-> 0, columns |-> << >>]
    ELSE
      LET columnNames == Keys(items[1])
      IN  [name |-> name, rows |-> Len(items),
           columns |-> [c \in 1 .. Len(columnNames) |->
               [name |-> columnNames[c],
                type |-> InferColumnType(Get(items[1], columnNames[c])),
                nullable |-> IsNullish(Get(items[1], columnNames[c]))]]]

\* inferSchema: the type of a column is that of its first value that is
\* neither null nor undefined
InferSchema(items, name) ==
    IF Len(items) = 0 THEN [name |-> name, rows |-> 0, columns |-> << >>]
    ELSE
      LET columnNames == ColumnNames(items, << >>)
          column(colName) ==
              LET present == {r \in 1 .. Len(items) : ~IsNullish(Get(items[r], colName))}
                  first == CHOOSE r \in present : \A q \in present : r <= q
                  hasNull == IF present = {} THEN TRUE ELSE first > 1
              IN  [name |-> colName,
                   type |-> IF present = {} THEN "null"
                            ELSE InferColumnType(Get(items[first], colName)),
                   nullable |-> hasNull \/ \E r \in 1 .. Len(items) :
                                               IsNullish(Get(items[r], colName))]
      IN  [name |-> name, rows |-> Len(items),
           columns |-> [c \in 1 .. Len(columnNames) |-> column(columnNames[c])]]

\* createDataset: the Dataset holds the very array it was given
CreateDataset(rows, name) == [metadata |-> InferSchema(rows.items, name), rows |-> rows]

\* array.map(...) building new row objects: a new array of new rows, the k-th
\* row taking the identity fresh + k
NewRows(fresh, entriesOf) ==
    RowsArray(fresh, [k \in 1 .. Len(entriesOf) |-> Row(fresh + k, entriesOf[k])])

\* array.filter, array.slice, [...array]: a new array holding the same row objects
SameRows(fresh, items) == RowsArray(fresh, items)

\* Array.prototype.slice(start, end)
RelativeIndex(k, len) ==
    IF k < 0 THEN (IF len + k < 0 THEN 0 ELSE len + k)
    ELSE IF k > len THEN len ELSE k

Slice(items, start, end) ==
    SubSeq(items, RelativeIndex(start, Len(items)) + 1, RelativeIndex(end, Len(items)))

Arrangements(n) ==
    {p \in [1 .. n -> 1 .. n] : \A a, b \in 1 .. n : a # b => p[a] # p[b]}

\* selectColumns
SelectColumns(dataset, columns, fresh) ==
    LET pick(row) ==
            LET kept == SelectSeq(columns, LAMBDA col : Has(row, col))
            IN  [c \in 1 .. Len(kept) |-> Entry(kept[c], Get(row, kept[c]))]
        items == dataset.rows.items
    IN  CreateDataset(NewRows(fresh, [r \in 1 .. Len(items) |-> pick(items[r])]),
                      dataset.metadata.name)

\* predicates a caller passes to filterRows
RowPredicates == {"all", "none", "v is a number"}

Satisfies(predicate, row) ==
    IF predicate = "all" THEN TRUE
    ELSE IF predicate = "none" THEN FALSE
    ELSE IsNumber(Get(row, "v"))

\* filterRows
FilterRows(dataset, predicate, fresh) ==
    CreateDataset(SameRows(fresh, SelectSeq(dataset.rows.items,
                                            LAMBDA row : Satisfies(predicate, row))),
                  dataset.metadata.name)

CompareFnIgnoringDirection(a, b, column, ascending) ==
    LET va == Get(a, column)
        vb == Get(b, column)
    IN  IF va = vb THEN 0
        ELSE IF IsNullish(va) THEN 1
        ELSE IF IsNullish(vb) THEN -1
        ELSE IF LessThan(va, vb) THEN -1 ELSE 1

\* the comparator sortBy passes to Array.prototype.sort
CompareFn(a, b, column, ascending) ==
    LET va == Get(a, column)
        vb == Get(b, column)
    IN  IF va = vb THEN 0
        ELSE IF IsNullish(va) THEN 1
        ELSE IF IsNullish(vb) THEN -1
        ELSE LET cmp == IF LessThan(va, vb) THEN -1 ELSE 1
             IN  IF ascending THEN cmp ELSE 0 - cmp

\* A comparator is consistent on the elements sorted when its sign is
\* antisymmetric and the orders it gives are transitive (ECMAScript, 23.1.3.30)
ConsistentComparator(items, column, ascending) ==
    LET c(x, y) == CompareFn(items[x], items[y], column, ascending)
        I == 1 .. Len(items)
    IN  /\ \A x, y \in I : (c(x, y) < 0) = (c(y, x) > 0)
        /\ \A x, y \in I : (c(x, y) = 0) = (c(y, x) = 0)
        /\ \A x, y, z \in I : (c(x, y) = 0 /\ c(y, z) = 0) => c(x, z) = 0
        /\ \A x, y, z \in I : (c(x, y) < 0 /\ c(y, z) < 0) => c(x, z) < 0
        /\ \A x, y, z \in I : (c(x, y) = 0 /\ c(y, z) < 0) => c(x, z) < 0
        /\ \A x, y, z \in I : (c(x, y) < 0 /\ c(y, z) = 0) => c(x, z) < 0

\* Array.prototype.sort with this comparator: the stable sort when the
\* comparator is consistent; otherwise the order is implementation-defined and
\* may be any arrangement of the elements
SortArrangements(items, column, ascending) ==
    LET c(x, y) == CompareFn(items[x], items[y], column, ascending)
        n == Len(items)
    IN  IF ConsistentComparator(items, column, ascending)
          THEN {p \in Arrangements(n) :
                   \A a, b \in 1 .. n :
                       a < b => (c(p[a], p[b]) < 0 \/ (c(p[a], p[b]) = 0 /\ p[a] < p[b]))}
          ELSE Arrangements(n)

\* sortBy, the sort having arranged the copy as p
SortBy(dataset, column, ascending, p, fresh) ==
    LET items == dataset.rows.items
    IN  CreateDataset(SameRows(fresh, [k \in 1 .. Len(items) |-> items[p[k]]]),
                      dataset.metadata.name)

\* sampleRows: the comparator () => Math.random() - 0.5 leaves the copy in
\* some arrangement p; the first n rows of it are kept
SampleRows(dataset, n, p, fresh) ==
    LET items == dataset.rows.items
    IN  CreateDataset(SameRows(fresh, Slice([k \in 1 .. Len(items) |-> items[p[k]]],
                                            0, n)),
                      dataset.metadata.name)

\* head: dataset.rows.slice(0, n)
DsHead(dataset, n, fresh) ==
    CreateDataset(SameRows(fresh, Slice(dataset.rows.items, 0, n)),
                  dataset.metadata.name)

\* tail: dataset.rows.slice(-n)
DsTail(dataset, n, fresh) ==
    CreateDataset(SameRows(fresh, Slice(dataset.rows.items, 0 - n,
                                        Len(dataset.rows.items))),
                  dataset.metadata.name)

DropNullsAny(dataset, columnsGiven, columns, fresh) ==
    LET names == dataset.metadata.columns
        cols == IF columnsGiven THEN columns
                ELSE [c \in 1 .. Len(names) |-> names[c].name]
        keep(row) == \E c \in 1 .. Len(cols) : ~IsNullish(Get(row, cols[c]))
    IN  CreateDataset(SameRows(fresh, SelectSeq(dataset.rows.items, keep)),
                      dataset.metadata.name)

\* dropNulls: columns ?? dataset.metadata.columns.map((c) => c.name)
DropNulls(dataset, columnsGiven, columns, fresh) ==
    LET names == dataset.metadata.columns
        cols == IF columnsGiven THEN columns
                ELSE [c \in 1 .. Len(names) |-> names[c].name]
        keep(row) == \A c \in 1 .. Len(cols) : ~IsNullish(Get(row, cols[c]))
    IN  CreateDataset(SameRows(fresh, SelectSeq(dataset.rows.items, keep)),
                      dataset.metadata.name)

\* addColumn: the computations a caller passes
ComputeFns == {"one", "v"}

Compute(fn, row) == IF fn = "one" THEN Num(1) ELSE Get(row, "v")

\* addColumn
AddColumn(dataset, name, compute, fresh) ==
    LET items == dataset.rows.items
    IN  CreateDataset(
            NewRows(fresh, [r \in 1 .. Len(items) |->
                SetKey(items[r].entries, name, Compute(compute, items[r]))]),
            dataset.metadata.name)

\* newRow[key === oldName ? newName : key] = val, over Object.entries(row)
RECURSIVE RenameEntries(_, _, _, _)
RenameEntries(entries, oldName, newName, newRow) ==
    IF entries = << >> THEN newRow
    ELSE LET key == Head(entries).k
         IN  RenameEntries(Tail(entries), oldName, newName,
                 SetKey(newRow, IF key = oldName THEN newName ELSE key,
                        Head(entries).v))

\* renameColumn
RenameColumn(dataset, oldName, newName, fresh) ==
    LET items == dataset.rows.items
    IN  CreateDataset(
            NewRows(fresh, [r \in 1 .. Len(items) |->
                RenameEntries(items[r].entries, oldName, newName, << >>)]),
            dataset.metadata.name)

\* mapRows: the transforms a caller passes return the row they were given or
\* a copy of it
RowTransforms == {"same row", "copy"}

MapRows(dataset, transform, fresh) ==
    LET items == dataset.rows.items
    IN  CreateDataset(
            RowsArray(fresh, [r \in 1 .. Len(items) |->
                IF transform = "same row" THEN items[r]
                ELSE Row(fresh + r, items[r].entries)]),
            dataset.metadata.name)

\* the keys of the Map of groups, in insertion order
RECURSIVE GroupKeys(_, _, _)
GroupKeys(items, column, keys) ==
    IF items = << >> THEN keys
    ELSE LET key == Get(Head(items), column)
         IN  GroupKeys(Tail(items), column,
                 IF \E k \in 1 .. Len(keys) : keys[k] = key
                   THEN keys ELSE Append(keys, key))

\* rows.map((r) => r[spec.column]).filter((v) => typeof v === 'number')
NumbersOf(rows, column) ==
    LET values == [r \in 1 .. Len(rows) |-> Get(rows[r], column)]
        numbers == SelectSeq(values, IsNumber)
    IN  [k \in 1 .. Len(numbers) |-> numbers[k].n]

\* Math.min(...values), Math.max(...values) on a non-empty list
MinOf(values) == CHOOSE x \in {values[k] : k \in 1 .. Len(values)} :
                     \A k \in 1 .. Len(values) : x <= values[k]
MaxOf(values) == CHOOSE x \in {values[k] : k \in 1 .. Len(values)} :
                     \A k \in 1 .. Len(values) : x >= values[k]

AggregatedCountingValues(rows, spec) ==
    LET values == NumbersOf(rows, spec.column)
    IN  IF spec.fn = "sum" THEN Num(ReduceSum(values, 0))
        ELSE IF spec.fn = "count" THEN Num(Len(values))
        ELSE IF spec.fn = "min"
          THEN (IF Len(values) > 0 THEN Num(MinOf(values)) ELSE Null)
        ELSE (IF Len(values) > 0 THEN Num(MaxOf(values)) ELSE Null)

\* one aggregation of one group (avg, a division, is left out)
Aggregated(rows, spec) ==
    LET values == NumbersOf(rows, spec.column)
    IN  IF spec.fn = "sum" THEN Num(ReduceSum(values, 0))
        ELSE IF spec.fn = "count" THEN Num(Len(rows))
        ELSE IF spec.fn = "min"
          THEN (IF Len(values) > 0 THEN Num(MinOf(values)) ELSE Null)
        ELSE (IF Len(values) > 0 THEN Num(MaxOf(values)) ELSE Null)

RECURSIVE AggregatedRow(_, _, _)
AggregatedRow(rows, aggregations, aggregated) ==
    IF aggregations = << >> THEN aggregated
    ELSE AggregatedRow(rows, Tail(aggregations),
             SetKey(aggregated, Head(aggregations).alias,
                    Aggregated(rows, Head(aggregations))))

\* aggregate: aggregations is the list of [alias, column, fn] in key order
Aggregate(dataset, groupColumn, aggregations, fresh) ==
    LET items == dataset.rows.items
        keys == GroupKeys(items, groupColumn, << >>)
        group(key) == SelectSeq(items, LAMBDA row : Get(row, groupColumn) = key)
    IN  CreateDataset(
            NewRows(fresh, [k \in 1 .. Len(keys) |->
                AggregatedRow(group(keys[k]), aggregations,
                              << Entry(groupColumn, keys[k]) >>)]),
            dataset.metadata.name)

\* getNumericColumn
GetNumericColumn(dataset, column) == NumbersOf(dataset.rows.items, column)

\* normalize: a dataset without a number in the column is returned as it is
Normalize(dataset, column, fresh) ==
    LET values == GetNumericColumn(dataset, column)
        items == dataset.rows.items
        min == MinOf(values)
        range == MaxOf(values) - min
        scaled(r) ==
            IF ~IsNumber(Get(r, column)) THEN Get(r, column)
            ELSE IF range = 0 THEN Num(0)
            ELSE Quotient(Get(r, column).n - min, range)
    IN  IF Len(values) = 0 THEN dataset
        ELSE CreateDataset(
                 NewRows(fresh, [r \in 1 .. Len(items) |->
                     SetKey(items[r].entries, column, scaled(items[r]))]),
                 dataset.metadata.name)

\* fillNulls
FillNulls(dataset, column, value, fresh) ==
    LET items == dataset.rows.items
    IN  CreateDataset(
            NewRows(fresh, [r \in 1 .. Len(items) |->
                SetKey(items[r].entries, column,
                       IF IsNullish(Get(items[r], column)) THEN value
                       ELSE Get(items[r], column))]),
            dataset.metadata.name)

\* datasets.flatMap((d) => d.rows)
RECURSIVE FlatRows(_)
FlatRows(datasets) ==
    IF datasets = << >> THEN << >>
    ELSE Head(datasets).rows.items \o FlatRows(Tail(datasets))

\* concat
Concat(datasets, fresh) ==
    CreateDataset(SameRows(fresh, FlatRows(datasets)),
                  IF Len(datasets) > 0 THEN datasets[1].metadata.name
                  ELSE "concatenated")

\* { ...entries, ...more }: the properties of more are assigned in their order
RECURSIVE SpreadInto(_, _)
SpreadInto(entries, more) ==
    IF more = << >> THEN entries
    ELSE SpreadInto(SetKey(entries, Head(more).k, Head(more).v), Tail(more))

MergeRowsLeftWins(leftRow, rightRow) == SpreadInto(rightRow.entries, leftRow.entries)

\* { ...leftRow, ...rightRow }
MergeRows(leftRow, rightRow) == SpreadInto(leftRow.entries, rightRow.entries)

\* innerJoin: the loop over left.rows, rightIndex.get(key) being the right
\* rows holding the key, in their order
RECURSIVE JoinedRows(_, _, _, _)
JoinedRows(leftItems, rightItems, leftKey, rightKey) ==
    IF leftItems = << >> THEN << >>
    ELSE LET leftRow == Head(leftItems)
             matches == SelectSeq(rightItems,
                            LAMBDA row : Get(row, rightKey) = Get(leftRow, leftKey))
         IN  [m \in 1 .. Len(matches) |-> MergeRows(leftRow, matches[m])]
                 \o JoinedRows(Tail(leftItems), rightItems, leftKey, rightKey)

\* innerJoin
InnerJoin(left, right, leftKey, rightKey, fresh) ==
    CreateDataset(NewRows(fresh, JoinedRows(left.rows.items, right.rows.items,
                                            leftKey, rightKey)),
                  left.metadata.name \o "_joined")

\* String(n) for an integer n
RECURSIVE DigitsOf(_)
DigitsOf(n) ==
    LET digit == << "0", "1", "2", "3", "4", "5", "6", "7", "8", "9" >>[(n % 10) + 1]
    IN  IF n < 10 THEN digit ELSE DigitsOf(n \div 10) \o digit

\* String(value)
StringOf(value) ==
    IF value.t = "string" THEN value.s
    ELSE IF value.t = "null" THEN "null"
    ELSE IF value.t = "undefined" THEN "undefined"
    ELSE IF value.n < 0 THEN "-" \o DigitsOf(0 - value.n)
    ELSE DigitsOf(value.n)

\* pivot: the row of one index value, after the rows holding it were visited
RECURSIVE Pivoted(_, _, _, _)
Pivoted(rows, pivotColumn, valueColumn, pivoted) ==
    IF rows = << >> THEN pivoted
    ELSE Pivoted(Tail(rows), pivotColumn, valueColumn,
             SetKey(pivoted, StringOf(Get(Head(rows), pivotColumn)),
                    Get(Head(rows), valueColumn)))

\* pivot
Pivot(dataset, indexColumn, pivotColumn, valueColumn, fresh) ==
    LET items == dataset.rows.items
        keys == GroupKeys(items, indexColumn, << >>)
        group(key) == SelectSeq(items, LAMBDA row : Get(row, indexColumn) = key)
    IN  CreateDataset(
            NewRows(fresh, [k \in 1 .. Len(keys) |->
                Pivoted(group(keys[k]), pivotColumn, valueColumn,
                        << Entry(indexColumn, keys[k]) >>)]),
            dataset.metadata.name)

\* ------------------------------------------------------------------- Init
\* The rows a dataset is built from: columns g and v, keys need not be uniform
RowShapes ==
    {<< Entry("v", Num(1)) >>,
     << Entry("g", Null), Entry("v", Num(1)) >>,
     << Entry("g", Str("a")) >>}
    \cup {<< Entry("g", Str("a")), Entry("v", v) >> :
             v \in {Num(4), Num(-4), Str("s"), Null}}

\* createDataset(rows, 'd') on a caller's array (identity 0) of up to MaxRows
\* row objects (identities 1, 2, ...)
Datasets ==
    UNION {{CreateDataset(RowsArray(0, [k \in 1 .. n |-> Row(k, shapes[k])]), "d") :
               shapes \in [1 .. n -> RowShapes]} : n \in 0 .. MaxRows}

DsInit ==
    /\ PipelineIdle
    /\ NotebookIdle
    /\ EditIdle
    /\ BuilderIdle
    /\ dsIn \in Datasets
    /\ dsCall = [op |-> "none"]
    /\ dsOut = dsIn
    /\ dspc = "ready"
    /\ nextRef = Len(dsIn.rows.items) + 1

\* ---------------------------------------------------------------- actions
\* the largest identity among the objects of a dataset
LargestRef(dataset) ==
    LET refs == {dataset.rows.ref}
                  \cup {dataset.rows.items[k].ref : k \in 1 .. Len(dataset.rows.items)}
    IN  CHOOSE r \in refs : \A q \in refs : r >= q

\* the call returns out; the identities it used are no longer free
Returns(call, out) ==
    /\ dsCall' = call
    /\ dsOut' = out
    /\ nextRef' = IF LargestRef(out) >= nextRef THEN LargestRef(out) + 1 ELSE nextRef
    /\ UNCHANGED << pvars, nvars, evars, bvars >>

ColumnLists == {<< "v" >>, << "g", "v" >>}
RowCounts == {0, 1, 5}
SampleSizes == {2}
ColumnNamesUsed == {"g", "v"}

DsSelectColumns ==
    /\ dspc = "ready"
    /\ \E columns \in ColumnLists :
          Returns([op |-> "selectColumns", columns |-> columns],
                  SelectColumns(dsIn, columns, nextRef))
    /\ dspc' = "done"
    /\ UNCHANGED dsIn

DsFilterRows ==
    /\ dspc = "ready"
    /\ \E predicate \in RowPredicates :
          Returns([op |-> "filterRows", predicate |-> predicate],
                  FilterRows(dsIn, predicate, nextRef))
    /\ dspc' = "done"
    /\ UNCHANGED dsIn

DsSortBy ==
    /\ dspc = "ready"
    /\ \E column \in ColumnNamesUsed, ascending \in BOOLEAN :
          \E p \in SortArrangements(dsIn.rows.items, column, ascending) :
              Returns([op |-> "sortBy", column |-> column, ascending |-> ascending],
                      SortBy(dsIn, column, ascending, p, nextRef))
    /\ dspc' = "done"
    /\ UNCHANGED dsIn

DsSampleRows ==
    /\ dspc = "ready"
    /\ \E n \in SampleSizes, p \in Arrangements(Len(dsIn.rows.items)) :
          Returns([op |-> "sampleRows", n |-> n], SampleRows(dsIn, n, p, nextRef))
    /\ dspc' = "done"
    /\ UNCHANGED dsIn

DsHeadCall ==
    /\ dspc = "ready"
    /\ \E n \in RowCounts :
          Returns([op |-> "head", n |-> n], DsHead(dsIn, n, nextRef))
    /\ dspc' = "done"
    /\ UNCHANGED dsIn

DsTailCall ==
    /\ dspc = "ready"
    /\ \E n \in RowCounts :
          Returns([op |-> "tail", n |-> n], DsTail(dsIn, n, nextRef))
    /\ dspc' = "done"
    /\ UNCHANGED dsIn

DsDropNulls ==
    /\ dspc = "ready"
    /\ \E call \in {[op |-> "dropNulls", columnsGiven |-> FALSE, columns |-> << >>]}
                    \cup {[op |-> "dropNulls", columnsGiven |-> TRUE, columns |-> c] :
                             c \in ColumnLists} :
          Returns(call, DropNulls(dsIn, call.columnsGiven, call.columns, nextRef))
    /\ dspc' = "done"
    /\ UNCHANGED dsIn

\* dropNulls(dropNulls(d, columns), columns): the result is passed in again
DsDropNullsAgain ==
    /\ dspc = "done"
    /\ dsCall.op = "dropNulls"
    /\ dsIn' = dsOut
    /\ Returns(dsCall, DropNulls(dsOut, dsCall.columnsGiven, dsCall.columns, nextRef))
    /\ dspc' = "redone"

AggregationLists ==
    {<< [alias |-> "s", column |-> "v", fn |-> "sum"],
        [alias |-> "n", column |-> "v", fn |-> "count"] >>,
     << [alias |-> "lo", column |-> "v", fn |-> "min"],
        [alias |-> "hi", column |-> "v", fn |-> "max"] >>}

DsAggregate ==
    /\ dspc = "ready"
    /\ \E groupColumn \in ColumnNamesUsed, aggregations \in AggregationLists :
          Returns([op |-> "aggregate", groupColumn |-> groupColumn,
                   aggregations |-> aggregations],
                  Aggregate(dsIn, groupColumn, aggregations, nextRef))
    /\ dspc' = "done"
    /\ UNCHANGED dsIn

DsNormalize ==
    /\ dspc = "ready"
    /\ \E column \in ColumnNamesUsed :
          Returns([op |-> "normalize", column |-> column],
                  Normalize(dsIn, column, nextRef))
    /\ dspc' = "done"
    /\ UNCHANGED dsIn

DsFillNulls ==
    /\ dspc = "ready"
    /\ \E column \in ColumnNamesUsed :
          Returns([op |-> "fillNulls", column |-> column, value |-> Num(0)],
                  FillNulls(dsIn, column, Num(0), nextRef))
    /\ dspc' = "done"
    /\ UNCHANGED dsIn

DsConcat ==
    /\ dspc = "ready"
    /\ \E datasets \in {<< dsIn >>, << dsIn, dsIn >>} :
          Returns([op |-> "concat", count |-> Len(datasets)],
                  Concat(datasets, nextRef))
    /\ dspc' = "done"
    /\ UNCHANGED dsIn

DsRenameColumn ==
    /\ dspc = "ready"
    /\ \E names \in {<< "v", "w" >>, << "v", "g" >>, << "g", "v" >>} :
          Returns([op |-> "renameColumn", oldName |-> names[1], newName |-> names[2]],
                  RenameColumn(dsIn, names[1], names[2], nextRef))
    /\ dspc' = "done"
    /\ UNCHANGED dsIn

DsAddColumn ==
    /\ dspc = "ready"
    /\ \E compute \in ComputeFns :
          Returns([op |-> "addColumn", name |-> "w", compute |-> compute],
                  AddColumn(dsIn, "w", compute, nextRef))
    /\ dspc' = "done"
    /\ UNCHANGED dsIn

DsMapRows ==
    /\ dspc = "ready"
    /\ \E transform \in RowTransforms :
          Returns([op |-> "mapRows", transform |-> transform],
                  MapRows(dsIn, transform, nextRef))
    /\ dspc' = "done"
    /\ UNCHANGED dsIn

\* the right-hand rows of a join: v collides with a left column, w does not
RightRowLists ==
    {<< << Entry("g", Str("a")), Entry("v", Num(1)) >>,
        << Entry("w", Num(1)) >>,
        << Entry("w", Num(4)), Entry("g", Str("a")) >> >>,
     << << Entry("g", Null), Entry("w", Num(1)) >> >>,
     << >>}

\* innerJoin(dsIn, right, 'g', 'g'), right a dataset of new objects
DsInnerJoin ==
    /\ dspc = "ready"
    /\ \E shapes \in RightRowLists :
          LET right == CreateDataset(
                  RowsArray(nextRef, [k \in 1 .. Len(shapes) |->
                                         Row(nextRef + k, shapes[k])]), "r")
          IN  Returns([op |-> "innerJoin", right |-> right,
                       leftKey |-> "g", rightKey |-> "g"],
                      InnerJoin(dsIn, right, "g", "g", nextRef + Len(shapes) + 1))
    /\ dspc' = "done"
    /\ UNCHANGED dsIn

\* pivot calls: [indexColumn, pivotColumn, valueColumn]
PivotCalls == {<< "g", "v", "v" >>, << "v", "g", "v" >>, << "a", "g", "v" >>}

DsPivot ==
    /\ dspc = "ready"
    /\ \E c \in PivotCalls :
          Returns([op |-> "pivot", indexColumn |-> c[1], pivotColumn |-> c[2],
                   valueColumn |-> c[3]],
                  Pivot(dsIn, c[1], c[2], c[3], nextRef))
    /\ dspc' = "done"
    /\ UNCHANGED dsIn

DsNext ==
    \/ DsInnerJoin
    \/ DsPivot
    \/ DsSelectColumns
    \/ DsFilterRows
    \/ DsSortBy
    \/ DsSampleRows
    \/ DsHeadCall
    \/ DsTailCall
    \/ DsDropNulls
    \/ DsDropNullsAgain
    \/ DsAggregate
    \/ DsNormalize
    \/ DsFillNulls
    \/ DsConcat
    \/ DsRenameColumn
    \/ DsAddColumn
    \/ DsMapRows

DatasetSpec == DsInit /\ [][DsNext]_vars

\* ========================================================= notebook manager
\* cells.splice(start, 0, cell) on a copy: a negative start counts from the end,
\* a start beyond the end appends
SpliceInsert(cells, start, cell) ==
    LET len == Len(cells)
        at == IF start < 0
                THEN (IF len + start < 0 THEN 0 ELSE len + start)
                ELSE (IF start > len THEN len ELSE start)
    IN  SubSeq(cells, 1, at) \o << cell >> \o SubSeq(cells, at + 1, len)

\* [...notebook.cells, cell]
AddCell(cells, cell) == Append(cells, cell)

InsertCell(cells, index, cell) == SpliceInsert(cells, index, cell)

\* notebook.cells.filter((c) => c.id !== cellId)
RemoveCell(cells, cellId) == SelectSeq(cells, LAMBDA c : c.id # cellId)

\* moveCell: the first cell with the id is found, every cell with the id is
\* filtered out, the found cell is spliced in at newIndex
MoveCell(cells, cellId, newIndex) ==
    IF \A k \in 1 .. Len(cells) : cells[k].id # cellId
      THEN cells
      ELSE LET at == CHOOSE k \in 1 .. Len(cells) :
                        /\ cells[k].id = cellId
                        /\ \A j \in 1 .. k - 1 : cells[j].id # cellId
           IN  SpliceInsert(RemoveCell(cells, cellId), newIndex, cells[at])

\* [...a.cells, ...b.cells]
MergeNotebooks(a, b) == a \o b

EditCellIds == {"c1", "c2", "c3"}

\* the cells handed to addCell and insertCell
EditCells == {CreateCell("code", src, id) : src \in {<< >>, << "x" >>},
                                              id \in EditCellIds}

\* createNotebook: cells: []
EdInit ==
    /\ PipelineIdle
    /\ NotebookIdle
    /\ DatasetIdle
    /\ BuilderIdle
    /\ edCells = << >>
    /\ edCall = << >>
    /\ edPrev = << >>
    /\ edpc = "ready"

\* one call returns: the notebook it returned is the one the next call is made on
EdReturns(call, cells) ==
    /\ edpc \in {"ready", "done"}
    /\ edCall' = call
    /\ edPrev' = edCells
    /\ edCells' = cells
    /\ edpc' = "done"
    /\ UNCHANGED << pvars, nvars, dvars, bvars >>

EdAddCell ==
    /\ Len(edCells) < MaxNotebookCells
    /\ \E cell \in EditCells :
           EdReturns([op |-> "addCell", id |-> cell.id, index |-> 0,
                      cells |-> << cell >>],
                     AddCell(edCells, cell))

EdInsertCell ==
    /\ Len(edCells) < MaxNotebookCells
    /\ \E cell \in EditCells : \E index \in -1 .. Len(edCells) + 1 :
           EdReturns([op |-> "insertCell", id |-> cell.id, index |-> index,
                      cells |-> << cell >>],
                     InsertCell(edCells, index, cell))

EdRemoveCell ==
    \E cellId \in EditCellIds :
        EdReturns([op |-> "removeCell", id |-> cellId, index |-> 0, cells |-> << >>],
                  RemoveCell(edCells, cellId))

EdMoveCell ==
    \E cellId \in EditCellIds : \E newIndex \in -1 .. Len(edCells) + 1 :
        EdReturns([op |-> "moveCell", id |-> cellId, index |-> newIndex,
                   cells |-> << >>],
                  MoveCell(edCells, cellId, newIndex))

\* mergeNotebooks(nb, other), other being nb itself or a one-cell notebook
EdMergeNotebooks ==
    \E other \in {edCells} \cup {<< cell >> : cell \in EditCells} :
        /\ Len(edCells) + Len(other) <= MaxNotebookCells
        /\ EdReturns([op |-> "mergeNotebooks", id |-> "", index |-> 0,
                      cells |-> other],
                     MergeNotebooks(edCells, other))

EdNext ==
    \/ EdAddCell
    \/ EdInsertCell
    \/ EdRemoveCell
    \/ EdMoveCell
    \/ EdMergeNotebooks

EditSpec == EdInit /\ [][EdNext]_vars

\* ========================================================== PipelineBuilder
\* The builder's stepNames array and stepFns Map, and the array and the Map of
\* every definition built, are objects: arrays[r] and maps[r] hold the contents
\* of the array and of the Map of identity r.
StepFunctions == {"f", "g"}

\* new Map()
EmptyMap == [name \in {} |-> ""]

\* map.set(key, value)
MapSet(map, key, value) ==
    [name \in DOMAIN map \cup {key} |-> IF name = key THEN value ELSE map[name]]

\* this.options.maxRetries ?? 3
DefaultMaxRetries == 3

\* the options passed to createPipeline
BuilderOptions ==
    {[retryOnFailure |-> "omitted", maxRetriesGiven |-> FALSE, maxRetries |-> 0,
      continueOnError |-> "omitted"],
     [retryOnFailure |-> "omitted", maxRetriesGiven |-> FALSE, maxRetries |-> 0,
      continueOnError |-> "true"],
     [retryOnFailure |-> "true", maxRetriesGiven |-> TRUE, maxRetries |-> 1,
      continueOnError |-> "true"]}

\* build(): the config of the definition, steps being the array of identity stepsRef
BuildConfig(options, stepNames) ==
    [steps |-> stepNames,
     retryOnFailure |-> options.retryOnFailure = "true",
     maxRetries |-> IF options.maxRetriesGiven THEN options.maxRetries
                    ELSE DefaultMaxRetries,
     continueOnError |-> options.continueOnError = "true"]

\* createPipeline(name, options): stepNames = [], stepFns = new Map()
BuilderInit ==
    /\ PipelineIdle
    /\ NotebookIdle
    /\ DatasetIdle
    /\ EditIdle
    /\ arrays = << << >> >>
    /\ maps = << EmptyMap >>
    /\ \E options \in BuilderOptions :
           builder = [stepNames |-> 1, stepFns |-> 1, options |-> options]
    /\ stepCalls = << >>
    /\ definitions = << >>
    /\ bpc = "building"

\* step(name, fn): this.stepNames.push(name); this.stepFns.set(name, fn)
BuilderStep ==
    /\ bpc = "building"
    /\ Len(stepCalls) < MaxSteps
    /\ \E name \in Names : \E fn \in StepFunctions :
           /\ arrays' = [arrays EXCEPT ![builder.stepNames] = Append(@, name)]
           /\ maps' = [maps EXCEPT ![builder.stepFns] = MapSet(@, name, fn)]
           /\ stepCalls' = Append(stepCalls, [name |-> name, fn |-> fn])
    /\ UNCHANGED << builder, definitions, bpc >>
    /\ UNCHANGED << pvars, nvars, dvars, evars >>

\* build(): { config: { steps: [...this.stepNames], ... }, steps: new Map(this.stepFns) }
Build ==
    /\ arrays' = Append(arrays, arrays[builder.stepNames])
    /\ maps' = Append(maps, maps[builder.stepFns])
    /\ definitions' = Append(definitions,
           [steps |-> Len(arrays) + 1,
            stepFns |-> Len(maps) + 1,
            stepsAtBuild |-> arrays[builder.stepNames],
            stepFnsAtBuild |-> maps[builder.stepFns]])

BuilderBuild ==
    /\ bpc = "building"
    /\ Len(definitions) < MaxBuilds
    /\ Build
    /\ UNCHANGED << builder, stepCalls, bpc >>
    /\ UNCHANGED << pvars, nvars, dvars, evars >>

\* run(input): executePipeline(this.build(), input), no options passed
BuilderRun ==
    /\ bpc = "building"
    /\ Build
    /\ bpc' = "running"
    /\ config' = BuildConfig(builder.options, arrays'[Len(arrays')])
    /\ stepFns' = maps'[Len(maps')]
    /\ hasCallback' = FALSE
    /\ pc' = "for"
    /\ UNCHANGED << i, step, attempts, success, currentInput, pipelineStatus,
                    pipelineError, stepResults, result, calls, reached, inFlight,
                    cbCalls, lastThrown >>
    /\ UNCHANGED << builder, stepCalls >>
    /\ UNCHANGED << nvars, dvars, evars >>

\* every step name of a built definition is registered, so no step is missing
BuilderNext ==
    \/ BuilderStep
    \/ BuilderBuild
    \/ BuilderRun
    \/ LoopEnd
    \/ StartStep
    \/ Invoke
    \/ FnThrows
    \/ FnResolves
    \/ AfterAttempts
    \/ Return

BuilderSpec == BuilderInit /\ [][BuilderNext]_vars

\* ------------------------------------------------- what the claims speak of
Resolved == pc = "resolved"

\* 1-based positions of result.steps holding a record of the given status
StepsWith(status) == {k \in 1 .. Len(result.steps) : result.steps[k].status = status}

\* the invocations of the function of step idx, in order
CallsOf(idx) == SelectSeq(calls, LAMBDA c : c.idx = idx)

\* the steps that were invoked after step idx
CalledAfter(idx) == {n \in 1 .. Len(calls) : calls[n].idx > idx}

\* the value the run went on with after the step at 1-based position k: what the
\* next step reached received, or the returned output when no later step was reached
ValueAfter(k) == IF k < Len(reached) THEN reached[k + 1] ELSE result.output

\* the value resolved by the nearest completed step before 0-based step idx,
\* the pipeline input when there is none
NearestCompletedValue(idx) ==
    LET earlier == {j \in 0 .. idx - 1 : result.steps[j + 1].status = "completed"}
    IN  IF earlier = {}
          THEN PipelineInput
          ELSE LET j == CHOOSE m \in earlier : \A o \in earlier : o <= m
                   cs == CallsOf(j)
               IN  cs[Len(cs)].value

\* (C1) Once a run has a failed step, its status is failed when continueOnError
\* is false and partial when continueOnError is true.
C1_StatusOfFailedRun ==
    (Resolved /\ StepsWith("failed") # {})
        => result.status = (IF config.continueOnError THEN "partial" ELSE "failed")

\* (C2) The result status is completed iff every record of result.steps is completed.
C2_CompletedIffAllCompleted ==
    Resolved =>
        (result.status = "completed"
            <=> \A k \in 1 .. Len(result.steps) : result.steps[k].status = "completed")

C2_Witness ==
    /\ Resolved
    /\ Len(result.steps) >= 2
    /\ result.steps[1].status = "completed"
    /\ result.steps[2].status = "failed"
    /\ result.status = "partial"

\* (C3) result.steps holds one record per configured step, in configured order,
\* each terminal; after a failure without continueOnError the later steps are
\* skipped and carry no timestamps.
C3_OneTerminalRecordPerStep ==
    Resolved =>
        /\ Len(result.steps) = NumSteps
        /\ \A k \in 1 .. Len(result.steps) :
              /\ result.steps[k].id = StepId(k - 1)
              /\ result.steps[k].name = config.steps[k]
              /\ result.steps[k].status \in {"completed", "failed", "skipped"}
              /\ result.steps[k].status = "skipped"
                    => ~result.steps[k].startedAt /\ ~result.steps[k].completedAt
              /\ (result.steps[k].status = "failed" /\ ~config.continueOnError)
                    => \A m \in k + 1 .. Len(result.steps) :
                          result.steps[m].status = "skipped"

\* (C4) After a failure without continueOnError no later step function is invoked
\* and the output is the value the failing step received.
C4_HaltsWithFailingStepInput ==
    (Resolved /\ ~config.continueOnError) =>
        \A k \in StepsWith("failed") :
            /\ CalledAfter(k - 1) = {}
            /\ result.output = reached[k]
            /\ result.output = NearestCompletedValue(k - 1)

\* (C5) With continueOnError a failed step is the identity on the running value:
\* the next step is reached and receives what the failed step received.
C5_FailedStepIsIdentity ==
    (Resolved /\ config.continueOnError) =>
        \A k \in StepsWith("failed") :
            k < NumSteps =>
                /\ Len(reached) > k
                /\ reached[k + 1] = reached[k]
                /\ config.steps[k + 1] \in DOMAIN stepFns
                      => \E n \in 1 .. Len(calls) :
                            calls[n].idx = k /\ calls[n].input = reached[k]

\* maxRetries + 1 attempts with retryOnFailure, one without
AttemptBudget == IF config.retryOnFailure THEN config.maxRetries + 1 ELSE 1

AllThrew(cs) == \A n \in 1 .. Len(cs) : cs[n].outcome = "threw"

\* the 0-based indices of the steps whose function was looked up and found
StartedSteps == {idx \in 0 .. Len(reached) - 1 : config.steps[idx + 1] \in DOMAIN stepFns}

\* (C6) A step function is invoked at most maxRetries + 1 times with retryOnFailure
\* (exactly that often when every attempt throws) and exactly once without; never
\* after an attempt that succeeded; the step ends failed only when all its attempts
\* threw, and its error is the message of the last attempt.
C6_RetryBudget ==
    Resolved =>
        \A idx \in StartedSteps :
            LET cs == CallsOf(idx)
                rec == result.steps[idx + 1]
            IN  /\ Len(cs) <= AttemptBudget
                /\ AllThrew(cs) => Len(cs) = AttemptBudget
                /\ ~config.retryOnFailure => Len(cs) = 1
                /\ \A n \in 1 .. Len(cs) - 1 : cs[n].outcome = "threw"
                /\ rec.status = "failed"
                      => AllThrew(cs) /\ rec.error = FnThrowMsg(idx, Len(cs))

\* (C7) A step name with no registered function is recorded failed with the error
\* `Step function not found: <name>`, no function is invoked for it, the running
\* value is unchanged, and the run halts without continueOnError and goes on to
\* the next step with the unchanged value with it.
C7_MissingStepFunction ==
    Resolved =>
        \A k \in 1 .. Len(reached) :
            config.steps[k] \notin DOMAIN stepFns =>
                /\ result.steps[k].status = "failed"
                /\ result.steps[k].error = NotFoundMsg(config.steps[k])
                /\ result.steps[k].name = config.steps[k]
                /\ CallsOf(k - 1) = << >>
                /\ ValueAfter(k) = reached[k]
                /\ ~config.continueOnError
                      => /\ Len(reached) = k
                         /\ CalledAfter(k - 1) = {}
                         /\ result.output = reached[k]
                /\ (config.continueOnError /\ k < NumSteps)
                      => /\ Len(reached) > k
                         /\ reached[k + 1] = reached[k]

C7_Witness ==
    /\ Resolved
    /\ config.continueOnError
    /\ Len(result.steps) >= 3
    /\ result.steps[1].status = "completed"
    /\ result.steps[2].error = NotFoundMsg(config.steps[2])
    /\ result.steps[3].status = "completed"
    /\ result.output = << config.steps[1], config.steps[3] >>

\* (C8) Steps run one at a time in configured order: while a step function is in
\* flight it is the only one and every earlier step has its terminal record; and
\* each invocation receives the value resolved by the nearest earlier completed step.
C8_StrictlySequential ==
    /\ Cardinality(inFlight) <= 1
    /\ pc = "await"
          => /\ inFlight = {i}
             /\ Len(stepResults) = i
             /\ \A k \in 1 .. Len(stepResults) :
                   stepResults[k].status \in {"completed", "failed"}
    /\ \A n \in 1 .. Len(calls) - 1 : calls[n].idx <= calls[n + 1].idx
    /\ Resolved
          => \A n \in 1 .. Len(calls) :
                calls[n].input = NearestCompletedValue(calls[n].idx)

C10_NotebookNeverRejects == npc # "rejected"

\* A source made of whitespace characters only (the empty source included)
BlankSource(source) == \A k \in 1 .. Len(source) : source[k] \in Whitespace

\* The executor invocations made for the executeCell call of position k
ExecCallsFor(k) == {j \in 1 .. Len(execCalls) : execCalls[j].index = k - 1}

\* C11: executeCell on a cell that is not a code cell, or whose source is empty
\* or whitespace only, returns the cell with status skipped and the same id,
\* type, source, outputs and executionCount, without invoking the executor and
\* without incrementing the context counter
C11_SkippedCellUntouched ==
    \A k \in 1 .. Len(returned) :
        LET cell == cellsToRun[k]
            out == returned[k]
        IN  (cell.type # "code" \/ BlankSource(cell.source)) =>
                /\ out.cell = [cell EXCEPT !.status = "skipped"]
                /\ ExecCallsFor(k) = {}
                /\ out.countAfter = out.countBefore

C11_Witness ==
    \E k \in 1 .. Len(returned) :
        /\ cellsToRun[k].type = "code"
        /\ cellsToRun[k].source = << " " >>
        /\ cellsToRun[k].outputs # << >>
        /\ cellsToRun[k].executionCount # NoCount
        /\ returned[k].cell.status = "skipped"
        /\ ctxCount > 0

\* C12: executeCell on a code cell whose source is not blank increments the
\* context counter and invokes the executor exactly once with the cell's source
\* and the context holding the incremented counter; the returned cell is
\* completed with exactly the outputs the executor returned or, when the
\* executor threw, in status error with the single error output carrying the
\* exception message; its executionCount is the incremented counter value and
\* nothing else of the cell differs
C12_ExecutedCell ==
    /\ \A k \in 1 .. Len(cellsToRun) : Cardinality(ExecCallsFor(k)) <= 1
    /\ \A k \in 1 .. Len(returned) :
          LET cell == cellsToRun[k]
              out == returned[k]
          IN  (cell.type = "code" /\ ~BlankSource(cell.source)) =>
                /\ Cardinality(ExecCallsFor(k)) = 1
                /\ out.countAfter > out.countBefore
                /\ out.cell.status \in {"completed", "error"}
                /\ \A j \in ExecCallsFor(k) :
                      LET call == execCalls[j]
                      IN  /\ call.source = cell.source
                          /\ call.count = out.countBefore + 1
                          /\ call.outcome \in {"returned", "threw"}
                          /\ call.outcome = "returned" =>
                                out.cell = [cell EXCEPT
                                    !.status = "completed",
                                    !.outputs = call.outputs,
                                    !.executionCount = out.countBefore + 1]
                          /\ call.outcome = "threw" =>
                                out.cell = [cell EXCEPT
                                    !.status = "error",
                                    !.outputs = << [type |-> "error",
                                                    data |-> call.message] >>,
                                    !.executionCount = out.countBefore + 1]

C12_Witness ==
    /\ Len(returned) = 2
    /\ returned[1].cell.status = "error"
    /\ returned[2].cell.status = "completed"
    /\ returned[2].cell.executionCount = 2
    /\ cellsToRun[2].executionCount = 7

\* executeNotebook is over, by resolving or by rejecting
NbDone == npc \in {"resolved", "rejected"}

\* The positions in the notebook of the selected cells, in increasing order:
\* cellsToRun[k] is the notebook's cell at SelectedPositions[k]
SelectedPositions ==
    LET S == {p \in 1 .. Len(notebook) :
                 nbOptions.cellIdsGiven => Includes(nbOptions.cellIds, notebook[p].id)}
    IN  CHOOSE f \in [1 .. Cardinality(S) -> S] :
            \A a, b \in 1 .. Cardinality(S) : a < b => f[a] < f[b]

SameExecutionState(c, d) ==
    /\ c.status = d.status
    /\ c.outputs = d.outputs
    /\ c.executionCount = d.executionCount

\* C13: with stopOnError true or omitted, once a selected cell ends in status
\* error no later selected cell is executed and every later cell of the
\* result keeps the status, outputs and executionCount it had; with
\* stopOnError false the executor is attempted for every selected code cell
\* with a non-blank source
C13_StopOnError ==
    /\ StopOnError =>
          \A k \in 1 .. Len(returned) :
              returned[k].cell.status = "error" =>
                  /\ Len(returned) = k
                  /\ \A j \in 1 .. Len(execCalls) : execCalls[j].index < k
                  /\ npc = "resolved" =>
                        \A p \in 1 .. Len(notebook) :
                            p > SelectedPositions[k] =>
                                SameExecutionState(nbResult[p], notebook[p])
    /\ (~StopOnError /\ NbDone) =>
          \A k \in 1 .. Len(cellsToRun) :
              (cellsToRun[k].type = "code" /\ ~BlankSource(cellsToRun[k].source)) =>
                  ExecCallsFor(k) # {}

\* The first position of id in ids (Len(ids) + 1 when it is not listed)
IndexOf(ids, id) ==
    IF Includes(ids, id)
      THEN CHOOSE k \in 1 .. Len(ids) :
               ids[k] = id /\ \A j \in 1 .. k - 1 : ids[j] # id
      ELSE Len(ids) + 1

\* C14 as stated: given cellIds, only listed cells are executed, and in the
\* order in which their ids appear in cellIds
C14_CellIdsOrder ==
    nbOptions.cellIdsGiven =>
        /\ \A k \in 1 .. Len(returned) :
              Includes(nbOptions.cellIds, returned[k].cell.id)
        /\ \A a, b \in 1 .. Len(returned) :
              a < b => IndexOf(nbOptions.cellIds, returned[a].cell.id)
                         <= IndexOf(nbOptions.cellIds, returned[b].cell.id)

\* The run went through every selected cell
RanToEnd == npc = "resolved" /\ ni >= Len(cellsToRun)

\* C14 amended: given cellIds, the cells executed are the notebook's cells
\* whose id is listed, taken in the order of the notebook's cell list whatever
\* the order of the ids in cellIds; a run that goes through its loop to the
\* end executes all of them, a run that halts or rejects a prefix of them
C14_NotebookOrder ==
    nbOptions.cellIdsGiven =>
        /\ Len(returned) <= Len(SelectedPositions)
        /\ \A k \in 1 .. Len(returned) :
              LET orig == notebook[SelectedPositions[k]]
              IN  /\ Includes(nbOptions.cellIds, orig.id)
                  /\ returned[k].cell.id = orig.id
                  /\ returned[k].cell.source = orig.source
                  /\ returned[k].cell.type = orig.type
        /\ RanToEnd => Len(returned) = Len(SelectedPositions)

C14_Witness ==
    /\ nbOptions.cellIdsGiven
    /\ nbOptions.cellIds = << "c2", "c1" >>
    /\ RanToEnd
    /\ Len(returned) = 2
    /\ returned[1].cell.id = "c1"
    /\ returned[2].cell.id = "c2"

\* C15: the result of executeNotebook has as many cells as the input, each
\* with the id, type and source of the input cell at its position, cells not
\* selected by cellIds are unchanged, and the input notebook is as it was
\* when the run began
C15_OnlyExecutionStateChanges ==
    /\ Len(nbResult) = Len(notebook)
    /\ \A p \in 1 .. Len(notebook) :
          /\ nbResult[p].id = notebook[p].id
          /\ nbResult[p].type = notebook[p].type
          /\ nbResult[p].source = notebook[p].source
          /\ (nbOptions.cellIdsGiven
                /\ ~Includes(nbOptions.cellIds, notebook[p].id)) =>
                    nbResult[p] = notebook[p]
    /\ cellsToRun = CellsToRun(notebook, nbOptions)

\* A transform call has returned
DsReturned == dspc \in {"done", "redone"}

\* C16: the rows array of the result of a transform is another array than
\* d.rows, and the result is not d itself
C16_FreshRowsArray ==
    DsReturned => (dsOut.rows.ref # dsIn.rows.ref /\ dsOut # dsIn)

\* C17: after a transform no row object of the output is a row object of
\* the input
C17_NoSharedRow ==
    DsReturned =>
        \A a \in 1 .. Len(dsOut.rows.items), b \in 1 .. Len(dsIn.rows.items) :
            dsOut.rows.items[a].ref # dsIn.rows.items[b].ref

\* out holds exactly the row objects of in, each once
IsPermutationOf(out, in) ==
    /\ Len(out) = Len(in)
    /\ \A k \in 1 .. Len(in) :
          Cardinality({j \in 1 .. Len(out) : out[j] = in[k]})
              = Cardinality({j \in 1 .. Len(in) : in[j] = in[k]})

\* every row whose column is null, undefined or missing comes after every
\* row whose column holds a value
NullishLast(items, column) ==
    \A a, b \in 1 .. Len(items) :
        (a < b /\ IsNullish(Get(items[a], column))) => IsNullish(Get(items[b], column))

\* no row with a value comes before a row with a strictly smaller value
\* (ascending) or a strictly larger one (descending)
NoInversion(items, column, ascending) ==
    \A a, b \in 1 .. Len(items) :
        LET va == Get(items[a], column)
            vb == Get(items[b], column)
        IN  (a < b /\ ~IsNullish(va) /\ ~IsNullish(vb)) =>
                IF ascending THEN ~LessThan(vb, va) ELSE ~LessThan(va, vb)

OrderableColumn(items, column) ==
    \A a, b \in 1 .. Len(items) :
        LET va == Get(items[a], column)
            vb == Get(items[b], column)
        IN  IF IsNullish(va) \/ IsNullish(vb)
              THEN (IsNullish(va) /\ IsNullish(vb)) => va = vb
              ELSE va = vb \/ LessThan(va, vb) \/ LessThan(vb, va)

SchemaColumns(items) ==
    {k \in ColumnNamesUsed : \E r \in 1 .. Len(items) : Has(items[r], k)}

\* The columns a dropNulls call considers
ConsideredColumns(call, items) ==
    IF call.columnsGiven THEN {call.columns[c] : c \in 1 .. Len(call.columns)}
    ELSE SchemaColumns(items)

\* C19: dropNulls keeps a row iff none of the considered columns is null,
\* undefined or missing in it, the kept rows staying in order; applied to its
\* own result with the same arguments it keeps exactly the rows of that
\* result, in the same order
C19_DropNullsIdempotent ==
    dsCall.op = "dropNulls" =>
        /\ DsReturned =>
              dsOut.rows.items =
                  SelectSeq(dsIn.rows.items,
                      LAMBDA row : \A col \in ConsideredColumns(dsCall, dsIn.rows.items) :
                          /\ Has(row, col)
                          /\ Get(row, col) # Null
                          /\ Get(row, col) # Undefined)
        /\ dspc = "redone" => dsOut.rows.items = dsIn.rows.items

C19_Witness ==
    /\ dspc = "redone"
    /\ dsCall.op = "dropNulls"
    /\ ~dsCall.columnsGiven
    /\ Len(dsOut.rows.items) = 1
    /\ dsOut.rows.items[1].ref = 3
    /\ Has(dsOut.rows.items[1], "g")

\* the sum, by repeated addition, of what column holds in the rows
ColumnTotal(items, column) == ReduceSum(NumbersOf(items, column), 0)

\* Each row of the input is in exactly one group: the output has one row per
\* distinct value of the group column, and the "n" alias of a group is the
\* number of input rows holding that value
GroupsPartition(out, in, groupColumn) ==
    /\ \A a, b \in 1 .. Len(out) :
          a # b => Get(out[a], groupColumn) # Get(out[b], groupColumn)
    /\ \A r \in 1 .. Len(in) :
          \E a \in 1 .. Len(out) : Get(out[a], groupColumn) = Get(in[r], groupColumn)
    /\ \A a \in 1 .. Len(out) :
          Get(out[a], "n") =
              Num(Cardinality({r \in 1 .. Len(in) :
                      Get(in[r], groupColumn) = Get(out[a], groupColumn)}))

\* the call aggregate(d, g, {s: {column: 'v', fn: 'sum'}, n: {column: 'v', fn: 'count'}})
SumAndCountCall ==
    /\ dspc = "done"
    /\ dsCall.op = "aggregate"
    /\ dsCall.groupColumn = "g"
    /\ dsCall.aggregations[1].fn = "sum"

RECURSIVE PlainSum(_)
PlainSum(values) == IF values = << >> THEN 0 ELSE Head(values) + PlainSum(Tail(values))

ExactSums(items, column) ==
    LET values == NumbersOf(items, column)
    IN  \A S \in SUBSET (1 .. Len(values)) :
            LET part == PlainSum([k \in 1 .. Cardinality(S) |->
                            values[CHOOSE j \in S :
                                Cardinality({q \in S : q < j}) = k - 1]])
            IN  RoundNumber(part) = part

Matches(items, column, value) ==
    Cardinality({r \in 1 .. Len(items) : Get(items[r], column) = value})

\* the pairs (left row, right row) with equal keys, left order first, then
\* right order
MatchingPairs(leftItems, rightItems, leftKey, rightKey) ==
    LET P == {pr \in (1 .. Len(leftItems)) \X (1 .. Len(rightItems)) :
                 Get(leftItems[pr[1]], leftKey) = Get(rightItems[pr[2]], rightKey)}
        before(x, y) == x[1] < y[1] \/ (x[1] = y[1] /\ x[2] < y[2])
    IN  [k \in 1 .. Cardinality(P) |->
            CHOOSE pr \in P : Cardinality({q \in P : before(q, pr)}) = k - 1]

\* row holds the fields of r, and those of l that r does not have
IsMergeOf(row, l, r) ==
    /\ \A e \in 1 .. Len(row.entries) :
          LET k == row.entries[e].k
          IN  /\ Has(l, k) \/ Has(r, k)
              /\ row.entries[e].v = IF Has(r, k) THEN Get(r, k) ELSE Get(l, k)
              /\ \A f \in 1 .. Len(row.entries) : row.entries[f].k = k => f = e
    /\ \A e \in 1 .. Len(l.entries) : Has(row, l.entries[e].k)
    /\ \A e \in 1 .. Len(r.entries) : Has(row, r.entries[e].k)

\* C21: innerJoin emits one merged row per pair of a left row and a right
\* row with equal keys, in left order and then right order, right fields
\* overwriting left ones; the number of rows is the sum over the left rows of
\* their numbers of matches and the name is the left name with _joined
C21_InnerJoin ==
    (dspc = "done" /\ dsCall.op = "innerJoin") =>
        LET li == dsIn.rows.items
            ri == dsCall.right.rows.items
            out == dsOut.rows.items
            pairs == MatchingPairs(li, ri, dsCall.leftKey, dsCall.rightKey)
            count[k \in 0 .. Len(li)] ==
                IF k = 0 THEN 0
                ELSE count[k - 1]
                       + Matches(ri, dsCall.rightKey, Get(li[k], dsCall.leftKey))
        IN  /\ Len(out) = Len(pairs)
            /\ Len(out) = count[Len(li)]
            /\ \A k \in 1 .. Len(out) :
                  IsMergeOf(out[k], li[pairs[k][1]], ri[pairs[k][2]])
            /\ dsOut.metadata.name = "d_joined"
            /\ dsOut.metadata.rows = Len(out)

C21_Witness ==
    /\ dspc = "done"
    /\ dsCall.op = "innerJoin"
    /\ Len(dsIn.rows.items) = 3
    /\ Len(dsOut.rows.items) = 3
    /\ Get(dsIn.rows.items[1], "g") = Undefined
    /\ Get(dsIn.rows.items[2], "g") = Null
    /\ Get(dsIn.rows.items[3], "v") = Num(4)
    /\ Get(dsOut.rows.items[2], "v") = Num(1)
    /\ Get(dsOut.rows.items[3], "w") = Num(4)

\* the distinct values of a column, in first-seen order
DistinctValues(items, column) ==
    LET firsts == {r \in 1 .. Len(items) :
                      \A q \in 1 .. r - 1 : Get(items[q], column) # Get(items[r], column)}
    IN  [k \in 1 .. Cardinality(firsts) |->
            Get(items[CHOOSE r \in firsts :
                          Cardinality({q \in firsts : q < r}) = k - 1], column)]

\* C22: pivot returns one row per distinct index value, in first-seen order,
\* each holding that value under the index column; for every pair of an
\* index value and a pivot value present in the input, the cell of that row
\* named by the pivot value holds the value column of the last input row
\* with the pair
C22_Pivot ==
    (dspc = "done" /\ dsCall.op = "pivot") =>
        LET in == dsIn.rows.items
            out == dsOut.rows.items
            index == DistinctValues(in, dsCall.indexColumn)
        IN  /\ Len(out) = Len(index)
            /\ \A k \in 1 .. Len(out) : Get(out[k], dsCall.indexColumn) = index[k]
            /\ \A r \in 1 .. Len(in) :
                  LET same == {q \in 1 .. Len(in) :
                                  /\ Get(in[q], dsCall.indexColumn)
                                        = Get(in[r], dsCall.indexColumn)
                                  /\ Get(in[q], dsCall.pivotColumn)
                                        = Get(in[r], dsCall.pivotColumn)}
                      last == CHOOSE q \in same : \A x \in same : x <= q
                  IN  \A k \in 1 .. Len(out) :
                          index[k] = Get(in[r], dsCall.indexColumn) =>
                              Get(out[k], StringOf(Get(in[r], dsCall.pivotColumn)))
                                  = Get(in[last], dsCall.valueColumn)

\* C23: renameColumn leaves no key old in any row; a row that had the key
\* old holds the value it had under old under new, also when it had a key new
\* already; the other keys keep their values
C23_RenameColumn ==
    (dspc = "done" /\ dsCall.op = "renameColumn") =>
        /\ Len(dsOut.rows.items) = Len(dsIn.rows.items)
        /\ \A r \in 1 .. Len(dsIn.rows.items) :
              LET row == dsIn.rows.items[r]
                  new == dsOut.rows.items[r]
              IN  /\ ~Has(new, dsCall.oldName)
                  /\ Has(row, dsCall.oldName) =>
                        /\ Has(new, dsCall.newName)
                        /\ Get(new, dsCall.newName) = Get(row, dsCall.oldName)
                  /\ ~Has(row, dsCall.oldName) => new.entries = row.entries
                  /\ \A k \in ColumnNamesUsed \ {dsCall.oldName, dsCall.newName} :
                        Has(new, k) = Has(row, k) /\ Get(new, k) = Get(row, k)

\* the keys appearing in any row
AllKeys(items) ==
    UNION {{items[r].entries[e].k : e \in 1 .. Len(items[r].entries)} :
              r \in 1 .. Len(items)}

\* the metadata of a dataset is what the claim says of its rows
SchemaDescribes(dataset) ==
    LET items == dataset.rows.items
        cols == dataset.metadata.columns
    IN  /\ dataset.metadata.rows = Len(items)
        /\ Len(cols) = Cardinality(AllKeys(items))
        /\ {cols[c].name : c \in 1 .. Len(cols)} = AllKeys(items)
        /\ \A c \in 1 .. Len(cols) :
              LET k == cols[c].name
                  valued == {r \in 1 .. Len(items) :
                                /\ Has(items[r], k)
                                /\ Get(items[r], k).t \notin {"null", "undefined"}}
              IN  /\ cols[c].type =
                        IF valued = {} THEN "null"
                        ELSE Get(items[CHOOSE r \in valued :
                                           \A q \in valued : r <= q], k).t
                  /\ cols[c].nullable =
                        (\E r \in 1 .. Len(items) :
                            \/ ~Has(items[r], k)
                            \/ Get(items[r], k).t \in {"null", "undefined"})

\* C24: the schema of every dataset built by createDataset or returned by a
\* transform has one column per distinct key of its rows, typed by the first
\* value that is neither null nor undefined (null when there is none),
\* nullable iff some row lacks the key or holds null or undefined, and a row
\* count equal to the number of rows
C24_InferSchema ==
    dspc # "idle" => (SchemaDescribes(dsIn) /\ SchemaDescribes(dsOut))

C24_Witness ==
    /\ dspc = "done"
    /\ dsCall.op = "selectColumns"
    /\ Len(dsOut.rows.items) = 3
    /\ dsOut.metadata.columns =
          << [name |-> "v", type |-> "number", nullable |-> FALSE],
             [name |-> "g", type |-> "string", nullable |-> TRUE] >>

Smaller(a, b) == IF a < b THEN a ELSE b

\* C25: head(d, n) returns the first min(n, |rows|) rows and tail(d, n) the
\* last min(n, |rows|) rows, in their order
C25_HeadTail ==
    LET in == dsIn.rows.items
        out == dsOut.rows.items
    IN  /\ (dspc = "done" /\ dsCall.op = "head") =>
              out = SubSeq(in, 1, Smaller(dsCall.n, Len(in)))
        /\ (dspc = "done" /\ dsCall.op = "tail") =>
              out = SubSeq(in, Len(in) - Smaller(dsCall.n, Len(in)) + 1, Len(in))

\* ---------------------------------------------------------------- claim C26
\* the invocations of onStepComplete made for 0-based step idx
CallbacksOf(idx) == {n \in 1 .. Len(cbCalls) : cbCalls[n].idx = idx}

\* (C26) onStepComplete is invoked exactly once for each step that completes, in
\* pipeline order, before the next step starts and with a record whose status is
\* completed; it is never invoked for a step that ends failed or skipped.
C26_OnStepCompleteOncePerCompletedStep ==
    hasCallback =>
        /\ \A n \in 1 .. Len(cbCalls) : cbCalls[n].status = "completed"
        /\ \A m, n \in 1 .. Len(cbCalls) : m < n => cbCalls[m].idx < cbCalls[n].idx
        /\ \A c \in 1 .. Len(calls) : \A j \in 0 .. calls[c].idx - 1 :
               (j < Len(stepResults) /\ stepResults[j + 1].status = "completed")
                   => CallbacksOf(j) # {}
        /\ \A k \in 1 .. Len(stepResults) :
               /\ stepResults[k].status = "completed"
                     => Cardinality(CallbacksOf(k - 1)) = 1
               /\ stepResults[k].status \in {"failed", "skipped"}
                     => CallbacksOf(k - 1) = {}

\* ---------------------------------------------------------------- claim C27
AllIdle(cells) == \A k \in 1 .. Len(cells) : cells[k].status = "idle"

\* the cell at position p of the notebook was selected and executeCell ran on it
ReachedPosition(p) ==
    \E k \in 1 .. Len(returned) :
        k <= Len(cellsToRun) /\ SelectedPositions[k] = p

\* (C27) After executeNotebook on a notebook whose cells are all idle no cell of
\* the result is running, the summary counts add up to the total, and a cell is
\* idle in the result only if it was not selected or the run stopped before it.
C27_NoCellLeftRunning ==
    (npc = "resolved" /\ AllIdle(notebook)) =>
        LET summary == GetExecutionSummary(nbResult)
        IN  /\ Len(nbResult) = Len(notebook)
            /\ \A p \in 1 .. Len(nbResult) :
                   nbResult[p].status \in {"completed", "error", "skipped", "idle"}
            /\ summary.completed + summary.skipped + summary.errors + summary.idle
                   = summary.total
            /\ \A p \in 1 .. Len(nbResult) :
                   nbResult[p].status = "idle" =>
                       \/ ~(\E k \in 1 .. Len(cellsToRun) : SelectedPositions[k] = p)
                       \/ /\ ~ReachedPosition(p)
                          /\ Len(returned) < Len(cellsToRun)
                          /\ returned[Len(returned)].cell.status = "error"
                          /\ StopOnError

C27_Witness ==
    /\ npc = "resolved"
    /\ AllIdle(notebook)
    /\ Len(notebook) = 2
    /\ GetExecutionSummary(nbResult).errors = 1
    /\ GetExecutionSummary(nbResult).idle = 1

\* ---------------------------------------------------------------- claim C28
\* the cells without the one at 1-based position p
WithoutPosition(cells, p) == SubSeq(cells, 1, p - 1) \o SubSeq(cells, p + 1, Len(cells))

HasCellId(cells, cellId) == \E k \in 1 .. Len(cells) : cells[k].id = cellId

\* (C28) moveCell(nb, id, k) with a present id and 0 <= k < number of cells
\* returns the same number of cells and the same collection of cells, with the
\* cell of that id at index k and all other cells in their relative order; with
\* an absent id it returns the notebook unchanged; for any nb the manager built.
C28_MoveCell ==
    (edpc = "done" /\ edCall.op = "moveCell") =>
        /\ (HasCellId(edPrev, edCall.id) /\ 0 <= edCall.index
               /\ edCall.index < Len(edPrev)) =>
              /\ Len(edCells) = Len(edPrev)
              /\ edCells[edCall.index + 1].id = edCall.id
              /\ \E p \in 1 .. Len(edPrev) :
                     /\ edPrev[p] = edCells[edCall.index + 1]
                     /\ WithoutPosition(edPrev, p)
                            = WithoutPosition(edCells, edCall.index + 1)
        /\ ~HasCellId(edPrev, edCall.id) => edCells = edPrev

\* ---------------------------------------------------------------- claim C29
\* the pipeline input transformed by the functions of the recorded steps that
\* are completed, applied in order
RECURSIVE CompletedStepsApplied(_, _)
CompletedStepsApplied(steps, v) ==
    IF steps = << >> THEN v
    ELSE CompletedStepsApplied(Tail(steps),
             IF Head(steps).status = "completed"
               THEN Apply(stepFns[Head(steps).name], v)
               ELSE v)

\* (C29) Whatever the configuration and the onStepComplete callback, a step
\* recorded failed has not changed the running value: the returned output is the
\* pipeline input transformed by exactly the functions of the completed steps.
C29_FailedStepLeavesValue ==
    Resolved => result.output = CompletedStepsApplied(result.steps, PipelineInput)

\* ---------------------------------------------------------------- claim C30
\* (C30) After step(name_1, fn_1) ... step(name_n, fn_n) and run, the function
\* executed at position i of the run is fn_i, also when two steps share a name;
\* and a definition build() returned is not changed by later step calls.
C30_BuilderRunsRegisteredFunctions ==
    /\ bpc = "running" =>
           \A c \in 1 .. Len(calls) :
               /\ calls[c].idx < Len(stepCalls)
               /\ calls[c].fn = stepCalls[calls[c].idx + 1].fn
    /\ \A d \in 1 .. Len(definitions) :
           /\ arrays[definitions[d].steps] = definitions[d].stepsAtBuild
           /\ maps[definitions[d].stepFns] = definitions[d].stepFnsAtBuild
====
